---- MODULE Spec2Model ----
(***************************************************************************)
(* Deckard fleet session engine: the AdbService device registry, its       *)
(* devices-update publication, the network scan loop, and the App's        *)
(* command dispatchers, as state machines.                                 *)
(***************************************************************************)
EXTENDS Integers, Sequences, FiniteSets, Bags, TLC

\* ------------------------------------------------------------------ bounds
MaxSteps == 4
MaxListeners == 2

\* --------------------------------------------------------------- constants
Serials == {"s1", "s2"}
\* The address part of each serial ("address:port"), as <<prefix, host>>.
DeviceAddress == [s1 |-> <<"192.168.1", 20>>, s2 |-> <<"192.168.0", 21>>]
AdbStates == {"device", "offline", "unauthorized"}
Null == "null"
PlaceholderUrl == "android-homescreen-placeholder.png"
PropsDump == "props"
\* Screen descriptions, as the sequence of their parts; the empty string is <<>>.
InitialDescription == <<"The initial state of the device.">>
HomeDescription(model) == <<"The home screen of a", model>>
AfterActionDescription(model) == <<"The screen of a", model, "after performing an action.">>
AfterFleetDescription(model) == <<"The screen of a", model, "after performing a fleet action.">>

\* What a successful getProperties() on the transport handle returns: the two
\* keys handleDeviceUpdate reads.
PropsSet == { [manufacturer |-> "Acme", model |-> "Pixel"] }

VARIABLES
    devices,    \* AdbService.devices: the registry, a sequence of Device records
    fetches,    \* handleDeviceUpdate calls suspended at await getProperties()
    live,       \* the transport's own device list (adb.getDevices())
    emitted,    \* the events published by the last step, in order
    steps,      \* transport events and calls from the user received so far
    last,       \* the operation the last step ran: its name, its serial, and
                \* whether that serial was in the registry when it ran
    isScanning, \* AdbService.isScanning
    scans,      \* the scanNetwork calls that have not returned yet, oldest first
    dispatches, \* the App's command handlers suspended at an await
    appError,   \* the App's error state (setError)
    listeners,  \* AdbService.listeners: event name -> listeners, in on() order
    calls       \* the service's connection and command calls suspended at an await

regVars == <<devices, fetches, live>>
scanVars == <<isScanning, scans>>
dispVars == <<dispatches, appError>>
busVars == <<listeners, calls>>
vars == <<devices, fetches, live, emitted, steps, last, isScanning, scans,
          dispatches, appError, listeners, calls>>

\* ------------------------------------------------------------ pure helpers
\* serial.split(':')[0]
IpOf(serial) == DeviceAddress[serial]

SerialsOf(devs) == { devs[i].serial : i \in 1..Len(devs) }

\* Array.prototype.findIndex on serial, 1-based; 0 when absent.
FindIndex(devs, serial) ==
    IF \E i \in 1..Len(devs) : devs[i].serial = serial
    THEN CHOOSE i \in 1..Len(devs) :
            /\ devs[i].serial = serial
            /\ \A j \in 1..(i - 1) : devs[j].serial # serial
    ELSE 0

\* The entry with the given serial, which must be there.
EntryOf(devs, serial) == devs[FindIndex(devs, serial)]

\* Array.prototype.find on serial: <<>> when absent, <<d>> when found.
FindDevice(devs, serial) ==
    IF FindIndex(devs, serial) = 0 THEN <<>> ELSE <<devs[FindIndex(devs, serial)]>>

\* Object spread { ...old, ...upd }.
Spread(old, upd) ==
    [f \in (DOMAIN old) \cup (DOMAIN upd) |->
        IF f \in DOMAIN upd THEN upd[f] ELSE old[f]]

\* this.devices.filter(d => d.serial !== device.serial)
RemoveSerial(devs, serial) ==
    LET Keep(d) == d.serial # serial IN SelectSeq(devs, Keep)

\* The updates spread over every entry.
PatchEvery(devs, serial, updates) ==
    [i \in 1..Len(devs) |-> Spread(devs[i], updates)]

\* prev.map(d => d.serial === serial ? { ...d, ...updates } : d)
PatchDevice(devs, serial, updates) ==
    [i \in 1..Len(devs) |->
        IF devs[i].serial = serial THEN Spread(devs[i], updates) ELSE devs[i]]

UpsertDevicePush(devs, device) == Append(devs, device)

\* upsertDevice: replace in place when the serial is present, else push.
UpsertDevice(devs, device) ==
    IF FindIndex(devs, device.serial) > 0
    THEN [devs EXCEPT ![FindIndex(devs, device.serial)] =
                Spread(devs[FindIndex(devs, device.serial)], device)]
    ELSE Append(devs, device)

\* The Device built on a successful property fetch; existing is the registry
\* entry found before the await (<<>> when there was none).
NewDevice(serial, state, props, existing) ==
    [ serial |-> serial,
      ipAddress |-> IpOf(serial),
      state |-> state,
      name |-> <<props.manufacturer, props.model>>,
      model |-> IF props.model # Null THEN props.model ELSE "Unknown Model",
      screenImageUrl |->
          IF existing # <<>> THEN existing[1].screenImageUrl ELSE Null,
      currentScreenDescription |->
          IF existing # <<>> /\ existing[1].currentScreenDescription # <<>>
          THEN existing[1].currentScreenDescription
          ELSE InitialDescription,
      isLoading |-> FALSE,
      layoutBoundsVisible |->
          IF existing # <<>> THEN existing[1].layoutBoundsVisible ELSE FALSE,
      infoOverlay |-> Null ]

PlaceholderNameUnknown(state) == <<"Unknown Device">>

PlaceholderName(state) ==
    IF state = "unauthorized" THEN <<"Unauthorized Device">> ELSE <<"Unknown Device">>

\* The Device inserted when the property fetch fails.
PlaceholderDevice(serial, state) ==
    [ serial |-> serial,
      ipAddress |-> IpOf(serial),
      state |-> state,
      name |-> PlaceholderName(state),
      model |-> "Unknown",
      screenImageUrl |-> Null,
      currentScreenDescription |-> <<>>,
      isLoading |-> FALSE,
      layoutBoundsVisible |-> FALSE,
      infoOverlay |-> Null ]

NeedsFetchAlways(existing, state) == TRUE

\* A fetch for serials the registry does not hold only.
NeedsFetchNew(existing, state) == existing = <<>>

\* The condition under which handleDeviceUpdate fetches properties.
NeedsFetch(existing, state) ==
    existing = <<>> \/ (existing[1].state # "device" /\ state = "device")

DevicesUpdateStale(devs) == [event |-> "devices-update", payload |-> devices]

\* emit('devices-update', [...this.devices])
DevicesUpdate(devs) == [event |-> "devices-update", payload |-> devs]

\* ------------------------------------------------------------------- state
\* One suspended handleDeviceUpdate call: the event's handle and the entry
\* found before the await.
Fetch(serial, state, existing) ==
    [serial |-> serial, state |-> state, existing |-> existing]

Init ==
    /\ devices = <<>>
    /\ fetches = EmptyBag
    /\ live = [s \in Serials |-> "absent"]
    /\ emitted = <<>>
    /\ steps = 0
    /\ last = [op |-> "init", serial |-> Null, present |-> FALSE]
    /\ isScanning = FALSE
    /\ scans = <<>>
    /\ dispatches = EmptyBag
    /\ appError = Null
    /\ listeners = [e \in {"devices-update", "error"} |-> <<>>]
    /\ calls = EmptyBag

Present(serial) == FindIndex(devices, serial) > 0

Ran(op, serial) == last' = [op |-> op, serial |-> serial, present |-> Present(serial)]

\* One more input from the environment, within the bound.
Step ==
    /\ steps < MaxSteps
    /\ steps' = steps + 1

\* ----------------------------------------------------------------- actions
\* handleDeviceUpdate up to its first suspension point (or to its end, for a
\* state-only patch).
HandleDeviceUpdate(serial, state) ==
    LET existing == FindDevice(devices, serial) IN
    IF NeedsFetch(existing, state)
    THEN /\ fetches' = fetches (+) SetToBag({Fetch(serial, state, existing)})
         /\ emitted' = <<>>
         /\ Ran("fetch", serial)
         /\ UNCHANGED devices
    ELSE /\ devices' = PatchDevice(devices, serial, [state |-> state])
         /\ emitted' = <<DevicesUpdate(devices')>>
         /\ Ran("statePatch", serial)
         /\ UNCHANGED fetches

\* adb 'device:add'
DeviceAdd(serial, state) ==
    /\ Step
    /\ UNCHANGED <<scanVars, dispVars, busVars>>
    /\ live[serial] = "absent"
    /\ live' = [live EXCEPT ![serial] = state]
    /\ HandleDeviceUpdate(serial, state)

\* adb 'device:change'
DeviceChange(serial, state) ==
    /\ Step
    /\ UNCHANGED <<scanVars, dispVars, busVars>>
    /\ live[serial] # "absent"
    /\ live' = [live EXCEPT ![serial] = state]
    /\ HandleDeviceUpdate(serial, state)

\* adb 'device:remove'
DeviceRemove(serial) ==
    /\ Step
    /\ live[serial] # "absent"
    /\ live' = [live EXCEPT ![serial] = "absent"]
    /\ devices' = RemoveSerial(devices, serial)
    /\ emitted' = <<DevicesUpdate(devices')>>
    /\ Ran("remove", serial)
    /\ UNCHANGED <<fetches, scanVars, dispVars, busVars>>

\* await adbDevice.getProperties() fulfilled: the try block's remainder.
FetchResolve(f, props) ==
    /\ BagIn(f, fetches)
    /\ devices' = UpsertDevice(devices, NewDevice(f.serial, f.state, props, f.existing))
    /\ emitted' = <<DevicesUpdate(devices')>>
    /\ Ran("fetchResolve", f.serial)
    /\ fetches' = fetches (-) SetToBag({f})
    /\ UNCHANGED <<live, steps, scanVars, dispVars, busVars>>

\* await adbDevice.getProperties() rejected: the catch block.
FetchReject(f) ==
    /\ BagIn(f, fetches)
    /\ devices' = UpsertDevice(devices, PlaceholderDevice(f.serial, f.state))
    /\ emitted' = <<DevicesUpdate(devices')>>
    /\ Ran("fetchReject", f.serial)
    /\ fetches' = fetches (-) SetToBag({f})
    /\ UNCHANGED <<live, steps, scanVars, dispVars, busVars>>

\* The patches the App hands to updateDevice.
AppPatches ==
    { [isLoading |-> TRUE],
      [layoutBoundsVisible |-> TRUE],
      [infoOverlay |-> PropsDump],
      [screenImageUrl |-> PlaceholderUrl,
       currentScreenDescription |-> AfterActionDescription("Pixel"),
       isLoading |-> FALSE] }

\* updateDevice(serial, updates), called from outside the service.
UpdateDevice(serial, updates) ==
    /\ Step
    /\ devices' = PatchDevice(devices, serial, updates)
    /\ emitted' = <<DevicesUpdate(devices')>>
    /\ last' = [op |-> "updateDevice", serial |-> serial, present |-> Present(serial),
                 updates |-> updates]
    /\ UNCHANGED <<fetches, live, scanVars, dispVars, busVars>>

\* devices.filter(d => d.state === 'device' && !d.screenImageUrl && !d.isLoading)
NewDevices(devs) ==
    { devs[i].serial : i \in { j \in 1..Len(devs) :
        /\ devs[j].state = "device"
        /\ devs[j].screenImageUrl = Null
        /\ ~devs[j].isLoading } }

\* The updater the placeholder effect hands to updateDevices.
PlaceholderUpdater(prev, new) ==
    [i \in 1..Len(prev) |->
        IF prev[i].serial \in new
        THEN Spread(prev[i],
                [screenImageUrl |-> PlaceholderUrl,
                 currentScreenDescription |-> HomeDescription(prev[i].model),
                 isLoading |-> FALSE])
        ELSE prev[i]]

\* The App's effect that gives newly connected devices a placeholder screen:
\* one updateDevices call.
PlaceholderEffect ==
    /\ NewDevices(devices) # {}
    /\ devices' = PlaceholderUpdater(devices, NewDevices(devices))
    /\ emitted' = <<DevicesUpdate(devices')>>
    /\ last' = [op |-> "updateDevices", serial |-> Null, present |-> FALSE]
    /\ UNCHANGED <<fetches, live, steps, scanVars, dispVars, busVars>>

\* The registry under transport events and the App's updateDevice(s) calls.
RegistryNext ==
    \/ \E s \in Serials, st \in AdbStates : DeviceAdd(s, st)
    \/ \E s \in Serials, st \in AdbStates : DeviceChange(s, st)
    \/ \E s \in Serials : DeviceRemove(s)
    \/ \E f \in BagToSet(fetches), p \in PropsSet : FetchResolve(f, p)
    \/ \E f \in BagToSet(fetches) : FetchReject(f)
    \/ \E s \in Serials, u \in AppPatches : UpdateDevice(s, u)
    \/ PlaceholderEffect

Next == RegistryNext

Spec == Init /\ [][Next]_vars

\* ------------------------------------------------------------ network scan
CommonSubnets == <<"192.168.1", "192.168.0", "10.0.0">>
DetectedSubnet == "192.168.7"
ScanStart == 1
ScanEnd == 254
BatchSize == 20

Min(a, b) == IF a < b THEN a ELSE b

\* Math.floor in place of Math.round.
RoundPercentFloor(x, total) == (100 * x) \div total

\* Math.round(x / total * 100) for 0 <= x <= total.
RoundPercent(x, total) == (200 * x + total) \div (2 * total)

\* subnetsToScan, from what getLocalSubnet() resolved to.
SubnetsToScan(detected) ==
    IF detected # Null THEN <<detected>> ELSE CommonSubnets

BatchEnd(i) == Min(i + BatchSize - 1, ScanEnd)

BatchHostsAll(subnet, i, devs) == i..BatchEnd(i)

\* The hosts of the batch starting at i that get a connect: those whose
\* address is not the ipAddress of a registered device.
BatchHosts(subnet, i, devs) ==
    { j \in i..BatchEnd(i) :
        ~\E d \in 1..Len(devs) : devs[d].ipAddress = <<subnet, j>> }

ScanProgress(currentIp, progress, found) ==
    [event |-> "scan-progress",
     payload |-> [currentIp |-> currentIp, progress |-> progress, found |-> found]]

ScanComplete == [event |-> "scan-complete", payload |-> <<>>]

\* The ipAddress values of the registry.
Addresses(devs) == { devs[d].ipAddress : d \in 1..Len(devs) }

\* One scanNetwork call suspended at await getLocalSubnet(). Besides the
\* call's variables the record keeps, for the batch in flight, the hosts a
\* connect was issued to and the registry's addresses when it was built, and
\* for the whole call the number of connects issued and of addresses skipped,
\* the batches built, and whether cancelScan() was called since it started.
Detecting ==
    [pc |-> "detect", subnets |-> <<>>, k |-> 0, i |-> 0, pending |-> 0,
     ipsScanned |-> 0, hosts |-> {}, known |-> {}, probes |-> 0, skipped |-> 0,
     swept |-> <<>>, detected |-> Null, cancelled |-> FALSE]

ReturnedSilently == [scan |-> <<>>, isScanning |-> FALSE, events |-> <<>>]

\* The end of scanNetwork: the flag is cleared, then scan-complete published.
Returned == [scan |-> <<>>, isScanning |-> FALSE, events |-> <<ScanComplete>>]

\* Loops that go on whatever the flag.
LoopGoesOnAlways(scanning) == TRUE

\* if (!this.isScanning) break; at the head of both loops.
LoopGoesOn(scanning) == scanning

\* The loop heads of scanNetwork, run from the position (k, i) the loops are
\* about to enter: either a batch is issued and the call suspends at
\* await Promise.allSettled, or the loops are left and the call returns.
\* Yields the call's next record (<<>> when it returned), the new isScanning
\* and the events published on the way.
EnterLoops(scan, k, i) ==
    IF k <= Len(scan.subnets) /\ LoopGoesOn(isScanning)
    THEN [scan |-> <<[scan EXCEPT !.pc = "batch", !.k = k, !.i = i,
                        !.pending = Cardinality(BatchHosts(scan.subnets[k], i, devices)),
                        !.hosts = BatchHosts(scan.subnets[k], i, devices),
                        !.known = Addresses(devices),
                        !.probes = @ + Cardinality(BatchHosts(scan.subnets[k], i, devices)),
                        !.skipped = @ + Cardinality(
                            { j \in i..BatchEnd(i) :
                                <<scan.subnets[k], j>> \in Addresses(devices) }),
                        !.swept = Append(@, <<scan.subnets[k], i, BatchEnd(i)>>)]>>,
          isScanning |-> isScanning,
          events |-> <<>>]
    ELSE Returned

\* scans with call l replaced by its next record, or dropped when it returned.
Continue(l, next) ==
    SubSeq(scans, 1, l - 1) \o next \o SubSeq(scans, l + 1, Len(scans))

ScanRan(op) == last' = [op |-> op, serial |-> Null, present |-> FALSE]

\* A step of call l's loops: the call as the step resumed it and, when it
\* returned, as it returned.
LoopRan(op, scan, next) ==
    last' = [op |-> op, serial |-> Null, present |-> FALSE,
             returned |-> IF next.scan = <<>> THEN <<scan>> ELSE <<>>,
             call |-> scan]

\* scanNetwork() up to await getLocalSubnet(); a no-op while isScanning.
ScanNetwork ==
    /\ Step
    /\ ScanRan("scanNetwork")
    /\ IF isScanning
       THEN /\ emitted' = <<>>
            /\ UNCHANGED <<scanVars, dispVars>>
       ELSE /\ isScanning' = TRUE
            /\ scans' = Append(scans, Detecting)
            /\ emitted' = <<ScanProgress(<<"Detecting local network...">>, 0, Len(devices))>>
    /\ UNCHANGED <<regVars, dispVars, busVars>>

\* cancelScan()
CancelScan ==
    /\ Step
    /\ ScanRan("cancelScan")
    /\ isScanning' = FALSE
    /\ scans' = [l \in 1..Len(scans) |-> [scans[l] EXCEPT !.cancelled = TRUE]]
    /\ emitted' = <<>>
    /\ UNCHANGED <<regVars, dispVars, busVars>>

\* getLocalSubnet() resolved for call l: the prefixes are chosen and the
\* loops entered.
DetectResolve(l, detected) ==
    /\ scans[l].pc = "detect"
    /\ LET scan == [scans[l] EXCEPT !.subnets = SubnetsToScan(detected),
                                     !.detected = detected]
           next == EnterLoops(scan, 1, ScanStart)
       IN /\ scans' = Continue(l, next.scan)
          /\ isScanning' = next.isScanning
          /\ emitted' =
                <<ScanProgress(IF detected # Null
                               THEN <<"Scanning your local subnet", detected>>
                               ELSE <<"Scanning common ranges">>, 0, Len(devices))>>
                \o next.events
          /\ LoopRan("detectResolve", scan, next)
    /\ UNCHANGED <<regVars, steps, dispVars, busVars>>

ProbeCatchEmits(failed) ==
    IF failed THEN <<[event |-> "error", payload |-> "connect failed"]>> ELSE <<>>

\* What the .catch(() => {}) on a connect publishes: nothing.
ProbeCatch(failed) == <<>>

\* n of the connects of call l's batch settle, fulfilled or rejected; a
\* rejection goes to the catch handler and the promise fulfils.
ProbeSettle(l, n, failed) ==
    /\ scans[l].pc = "batch"
    /\ n \in 1..scans[l].pending
    /\ scans' = [scans EXCEPT ![l].pending = @ - n]
    /\ emitted' = ProbeCatch(failed)
    /\ ScanRan(IF failed THEN "probeFail" ELSE "probeSettle")
    /\ UNCHANGED <<regVars, steps, isScanning, dispVars, busVars>>

\* await Promise.allSettled(batchPromises) returned for call l: progress is
\* published and the loops advance.
BatchDone(l) ==
    /\ scans[l].pc = "batch"
    /\ scans[l].pending = 0
    /\ LET cur == scans[l]
           batchEnd == BatchEnd(cur.i)
           scan == [cur EXCEPT !.ipsScanned = @ + (batchEnd - cur.i + 1)]
           total == Len(cur.subnets) * (ScanEnd - ScanStart + 1)
           next == IF cur.i + BatchSize <= ScanEnd
                   THEN EnterLoops(scan, cur.k, cur.i + BatchSize)
                   ELSE EnterLoops(scan, cur.k + 1, ScanStart)
       IN /\ scans' = Continue(l, next.scan)
          /\ isScanning' = next.isScanning
          /\ emitted' =
                <<ScanProgress(<<cur.subnets[cur.k], batchEnd>>,
                               RoundPercent(scan.ipsScanned, total), Len(devices))>>
                \o next.events
          /\ LoopRan("batchDone", scan, next)
    /\ UNCHANGED <<regVars, steps, dispVars, busVars>>

\* The scanner under scanNetwork()/cancelScan() calls, each batch settling
\* as a whole.
ScanNext ==
    \/ ScanNetwork
    \/ CancelScan
    \/ \E l \in 1..Len(scans), d \in {Null, DetectedSubnet} : DetectResolve(l, d)
    \/ \E l \in 1..Len(scans), f \in BOOLEAN : ProbeSettle(l, scans[l].pending, f)
    \/ \E l \in 1..Len(scans) : BatchDone(l)

SpecScan == Init /\ [][ScanNext]_vars

\* The scanner when detection resolves and every connect settles: a call
\* suspended at an await is resumed in the end.
ScanResumes ==
    \/ \E l \in 1..Len(scans), d \in {Null, DetectedSubnet} : DetectResolve(l, d)
    \/ \E l \in 1..Len(scans), f \in BOOLEAN : ProbeSettle(l, scans[l].pending, f)
    \/ \E l \in 1..Len(scans) : BatchDone(l)

SpecScanFair == Init /\ [][ScanNext]_vars /\ WF_vars(ScanResumes)

\* The scanner, never cancelled, while devices connect and get registered;
\* a batch settles at once or all but its last connect first.
SweepNext ==
    \/ ScanNetwork
    \/ \E l \in 1..Len(scans), d \in {Null, DetectedSubnet} : DetectResolve(l, d)
    \/ \E l \in 1..Len(scans), f \in BOOLEAN :
          \E n \in {scans[l].pending - 1, scans[l].pending} : ProbeSettle(l, n, f)
    \/ \E l \in 1..Len(scans) : BatchDone(l)
    \/ \E s \in Serials, st \in {"device", "offline"} : DeviceAdd(s, st)
    \/ \E f \in BagToSet(fetches), p \in PropsSet : FetchResolve(f, p)
    \/ \E f \in BagToSet(fetches) : FetchReject(f)

SpecSweep == Init /\ [][SweepNext]_vars

\* -------------------------------------------------------- command dispatch
FleetCommands ==
    {"reboot", "layout_bounds", "force_stop", "uninstall", "install", "unknown"}
DeviceCommands == {"reboot", "layout_bounds", "force_stop", "disconnect"}
NoOnlineDevices == "No online devices to run command on."
FailedOnDevice == "Failed on device"

\* The registry's devices whatever their state.
AllDevices(devs) == devs

\* getDevices().filter(d => d.state === 'device')
OnlineDevices(devs) ==
    LET Online(d) == d.state = "device" IN SelectSeq(devs, Online)

\* prev.map(d => targets.some(t => t.serial === d.serial) ? {...d, isLoading: true} : d)
MarkLoading(devs, targets) ==
    [i \in 1..Len(devs) |->
        IF devs[i].serial \in targets
        THEN Spread(devs[i], [isLoading |-> TRUE]) ELSE devs[i]]

\* The registries a run of updateDevice calls goes through, one per call.
RECURSIVE PatchTrace(_, _)
PatchTrace(devs, patches) ==
    IF patches = <<>> THEN <<>>
    ELSE LET next == PatchDevice(devs, patches[1].serial, patches[1].updates)
         IN <<next>> \o PatchTrace(next, Tail(patches))

Final(devs, trace) == IF trace = <<>> THEN devs ELSE trace[Len(trace)]

\* The devices-update events of a run of updateDevice(s) calls.
Events(trace) == [i \in 1..Len(trace) |-> DevicesUpdate(trace[i])]

\* An operation still in flight: "pending1" has one more service call to make
\* after the one in flight, "pending" has none.
InFlight == {"pending1", "pending"}

\* The promise the map callback of runAdbCommandOnFleet returns for one
\* device: a service call in flight, or Promise.resolve() ("none").
FleetOp(cmd, hasArgs) ==
    CASE cmd = "reboot" -> "pending"
      [] cmd = "layout_bounds" -> "pending1"
      [] cmd \in {"force_stop", "uninstall"} /\ hasArgs -> "pending"
      [] OTHER -> "none"

\* The layout_bounds case of the map callback: updateDevice with the negated
\* flag of the snapshot, before the exec is issued.
FleetToggles(cmd, online) ==
    IF cmd = "layout_bounds"
    THEN [i \in 1..Len(online) |->
            [serial |-> online[i].serial,
             updates |-> [layoutBoundsVisible |-> ~online[i].layoutBoundsVisible]]]
    ELSE <<>>

\* onlineDevices.forEach(device => updateDevice(device.serial, {...}))
FleetFinish(online) ==
    [i \in 1..Len(online) |->
        [serial |-> online[i].serial,
         updates |-> [isLoading |-> FALSE,
                      screenImageUrl |-> PlaceholderUrl,
                      currentScreenDescription |-> AfterFleetDescription(online[i].model)]]]

\* One handler suspended at an await: the snapshot of its targets and the
\* status of each target's operation.
Dispatch(handler, cmd, targets, ops) ==
    [handler |-> handler, cmd |-> cmd, targets |-> targets, ops |-> ops]

Unsettled(ops) == { s \in DOMAIN ops : ops[s] \in InFlight }
Failed(ops) == { s \in DOMAIN ops : ops[s] = "failed" }
Succeeded(ops) == { s \in DOMAIN ops : ops[s] = "ok" }

\* What a dispatch step did: the handler, the serials it targets and marked
\* loading, where its operations stand, whether the handler itself threw, and
\* the per-device failures it reported to the user.
DispatchRecord(op, handler, targets, marked, ops, faulted, report) ==
    [op |-> op, serial |-> Null, present |-> FALSE, handler |-> handler,
     targets |-> targets, marked |-> marked,
     issued |-> { s \in DOMAIN ops : ops[s] # "none" },
     unsettled |-> Unsettled(ops), failed |-> Failed(ops),
     succeeded |-> Succeeded(ops), faulted |-> faulted, report |-> report]

DispatchRan(op, handler, targets, marked, ops, faulted, report) ==
    last' = DispatchRecord(op, handler, targets, marked, ops, faulted, report)

\* A summary shown to the user: the number of operations that succeeded and,
\* for each failed one, the device's name with the error's message.
Report(successes, failedDevices) ==
    [successes |-> successes,
     failures |-> { [serial |-> failedDevices[i].serial,
                     name |-> failedDevices[i].name,
                     reason |-> "error"] : i \in 1..Len(failedDevices) }]

\* The part of runAdbCommandOnFleet after await Promise.allSettled.
FleetComplete(devs, before, online, ops) ==
    LET finish == PatchTrace(devs, FleetFinish(online))
    IN /\ devices' = Final(devs, finish)
       /\ emitted' = before \o Events(finish)
       /\ DispatchRan("complete", "runAdbCommandOnFleet", SerialsOf(online),
                      SerialsOf(online), ops, FALSE, {})

\* runAdbCommandOnFleet up to await Promise.allSettled, and through it when
\* no promise of the batch is pending. With install and a package argument
\* the map callback calls adbService.install, which the service does not
\* define: the TypeError rejects the handler after the loading marks.
RunAdbCommandOnFleet(cmd, hasArgs) ==
    LET online == OnlineDevices(devices)
        targets == SerialsOf(online)
        marked == MarkLoading(devices, targets)
        toggles == PatchTrace(marked, FleetToggles(cmd, online))
        ops == [s \in targets |-> FleetOp(cmd, hasArgs)]
        start == <<DevicesUpdate(marked)>> \o Events(toggles)
    IN /\ Step
       /\ IF online = <<>>
          THEN /\ appError' = NoOnlineDevices
               /\ emitted' = <<>>
               /\ DispatchRan("noTargets", "runAdbCommandOnFleet", {}, {},
                              ops, FALSE, {})
               /\ UNCHANGED <<devices, dispatches>>
          ELSE /\ appError' = Null
               /\ IF cmd = "install" /\ hasArgs
                  THEN /\ devices' = marked
                       /\ emitted' = <<DevicesUpdate(marked)>>
                       /\ DispatchRan("complete", "runAdbCommandOnFleet", targets,
                                      targets, [s \in targets |-> "none"], TRUE, {})
                       /\ UNCHANGED dispatches
                  ELSE IF Unsettled(ops) = {}
                  THEN /\ FleetComplete(Final(marked, toggles), start, online, ops)
                       /\ UNCHANGED dispatches
                  ELSE /\ devices' = Final(marked, toggles)
                       /\ emitted' = start
                       /\ dispatches' = dispatches (+)
                            SetToBag({Dispatch("runAdbCommandOnFleet", cmd, online, ops)})
                       /\ DispatchRan("dispatch", "runAdbCommandOnFleet", targets,
                                      targets, ops, FALSE, {})
       /\ UNCHANGED <<fetches, live, scanVars, busVars>>

\* How one service call of an operation settling changes the operation:
\* the next call of the chain goes out, or the operation is settled.
Settle(status, outcome) ==
    IF outcome = "ok" /\ status = "pending1" THEN "pending" ELSE outcome

\* reboot, exec, forceStop and uninstall go through getAdbDevice, which
\* throws unless the transport lists the serial as online.
CanSucceed(serial) == live[serial] = "device"

\* One service call of a fleet dispatch settles; when it was the last one
\* pending, Promise.allSettled resolves and the handler runs to its end.
FleetOpSettle(r, serial, outcome) ==
    /\ r.handler = "runAdbCommandOnFleet"
    /\ serial \in Unsettled(r.ops)
    /\ outcome = "ok" => CanSucceed(serial)
    /\ LET ops == [r.ops EXCEPT ![serial] = Settle(r.ops[serial], outcome)]
       IN IF Unsettled(ops) = {}
          THEN /\ FleetComplete(devices, <<>>, r.targets, ops)
               /\ dispatches' = dispatches (-) SetToBag({r})
          ELSE /\ dispatches' = (dispatches (-) SetToBag({r})) (+)
                        SetToBag({[r EXCEPT !.ops = ops]})
               /\ emitted' = <<>>
               /\ DispatchRan("opSettle", r.handler, SerialsOf(r.targets),
                              SerialsOf(r.targets), ops, FALSE, {})
               /\ UNCHANGED devices
    /\ UNCHANGED <<fetches, live, steps, scanVars, appError, busVars>>

\* The updateDevice calls of runAdbCommandOnDevice after its switch succeeded.
DeviceFinish(cmd, device) ==
    (IF cmd = "layout_bounds"
     THEN <<[serial |-> device.serial,
             updates |-> [layoutBoundsVisible |-> ~device.layoutBoundsVisible]]>>
     ELSE <<>>)
    \o <<[serial |-> device.serial,
          updates |-> [screenImageUrl |-> PlaceholderUrl,
                       currentScreenDescription |-> AfterActionDescription(device.model),
                       isLoading |-> FALSE]]>>

\* The first service call of each case of the switch; force_stop without an
\* app name awaits nothing.
DeviceOp(cmd, hasArgs) ==
    CASE cmd = "layout_bounds" -> "pending1"
      [] cmd = "force_stop" /\ ~hasArgs -> "none"
      [] OTHER -> "pending"

\* runAdbCommandOnDevice up to its first await, or to its end when the case
\* awaits nothing.
RunAdbCommandOnDevice(cmd, serial, hasArgs) ==
    LET found == FindDevice(devices, serial)
        marked == PatchDevice(devices, serial, [isLoading |-> TRUE])
        ops == [s \in {serial} |-> DeviceOp(cmd, hasArgs)]
        finish == PatchTrace(marked, DeviceFinish(cmd, found[1]))
    IN /\ Step
       /\ IF found = <<>>
          THEN /\ emitted' = <<>>
               /\ DispatchRan("noTargets", "runAdbCommandOnDevice", {}, {},
                              ops, FALSE, {})
               /\ UNCHANGED <<devices, dispatches, appError>>
          ELSE /\ appError' = Null
               /\ IF Unsettled(ops) = {}
                  THEN /\ devices' = Final(marked, finish)
                       /\ emitted' = <<DevicesUpdate(marked)>> \o Events(finish)
                       /\ DispatchRan("complete", "runAdbCommandOnDevice", {serial},
                                      {serial}, ops, FALSE, {})
                       /\ UNCHANGED dispatches
                  ELSE /\ devices' = marked
                       /\ emitted' = <<DevicesUpdate(marked)>>
                       /\ dispatches' = dispatches (+)
                            SetToBag({Dispatch("runAdbCommandOnDevice", cmd, found, ops)})
                       /\ DispatchRan("dispatch", "runAdbCommandOnDevice", {serial},
                                      {serial}, ops, FALSE, {})
       /\ UNCHANGED <<fetches, live, scanVars, busVars>>

\* One service call of a single-device dispatch settles: the next exec of
\* layout_bounds goes out, or the handler runs to its end through the rest
\* of the try block or through the catch block.
DeviceOpSettle(r, outcome) ==
    LET device == r.targets[1]
        serial == device.serial
        ops == [r.ops EXCEPT ![serial] = Settle(r.ops[serial], outcome)]
        finish == PatchTrace(devices,
                    IF outcome = "ok" THEN DeviceFinish(r.cmd, device)
                    ELSE <<[serial |-> serial, updates |-> [isLoading |-> FALSE]]>>)
    IN /\ r.handler = "runAdbCommandOnDevice"
       /\ serial \in Unsettled(r.ops)
       /\ outcome = "ok" => (r.cmd = "disconnect" \/ CanSucceed(serial))
       /\ IF Unsettled(ops) # {}
          THEN /\ dispatches' = (dispatches (-) SetToBag({r})) (+)
                        SetToBag({[r EXCEPT !.ops = ops]})
               /\ emitted' = <<>>
               /\ DispatchRan("opSettle", r.handler, {serial}, {serial}, ops, FALSE, {})
               /\ UNCHANGED <<devices, appError>>
          ELSE /\ dispatches' = dispatches (-) SetToBag({r})
               /\ devices' = Final(devices, finish)
               /\ emitted' = Events(finish)
               /\ appError' = IF outcome = "ok" THEN appError ELSE FailedOnDevice
               /\ last' = Spread(DispatchRecord("complete", r.handler, {serial}, {serial},
                                                ops, FALSE,
                                                IF outcome = "ok" THEN {}
                                                ELSE {Report(0, <<device>>)}),
                                 [cmd |-> r.cmd,
                                  snapshot |-> device.layoutBoundsVisible])
       /\ UNCHANGED <<fetches, live, steps, scanVars, busVars>>

\* The states the transport reports while commands are dispatched.
EventStates == {"device", "offline"}

\* The transport's events and the property fetches they start.
TransportNext ==
    \/ \E s \in Serials, st \in EventStates : DeviceAdd(s, st)
    \/ \E s \in Serials, st \in EventStates : DeviceChange(s, st)
    \/ \E s \in Serials : DeviceRemove(s)
    \/ \E f \in BagToSet(fetches), p \in PropsSet : FetchResolve(f, p)
    \/ \E f \in BagToSet(fetches) : FetchReject(f)

\* The App of App.tsx 425-787 over the service: its two dispatchers and its
\* placeholder effect, under transport events.
DispatchNext ==
    \/ TransportNext
    \/ PlaceholderEffect
    \/ \E c \in FleetCommands, a \in BOOLEAN : RunAdbCommandOnFleet(c, a)
    \/ \E r \in BagToSet(dispatches), s \in Serials, o \in {"ok", "failed"} :
            FleetOpSettle(r, s, o)
    \/ \E c \in DeviceCommands, s \in Serials, a \in BOOLEAN :
            RunAdbCommandOnDevice(c, s, a)
    \/ \E r \in BagToSet(dispatches), o \in {"ok", "failed"} : DeviceOpSettle(r, o)

SpecDispatch == Init /\ [][DispatchNext]_vars

\* ------------------------------------- command dispatch, App.tsx 1 to 424
GeneratedUrl == "generated.png"
GeneratedDescription(model, what) == <<"a screen on a", model, "showing", what>>
ToggleFailed == "Failed to toggle layout bounds."
AdbCommandFailed == "ADB command failed"

\* prev.map(d => ({ ...d, isLoading: false }))
ClearLoading(devs) ==
    [i \in 1..Len(devs) |-> Spread(devs[i], [isLoading |-> FALSE])]

\* getSerialsForFleet()
GetSerialsForFleet == SerialsOf(OnlineDevices(devices))

\* getDevices().filter(d => serials.includes(d.serial) && d.state === 'device')
TargetDevices(devs, serials) ==
    LET Target(d) == d.serial \in serials /\ d.state = "device"
    IN SelectSeq(devs, Target)

\* The effect that generates a first screen for newly connected devices, up
\* to await Promise.allSettled.
GenerateScreensForNewDevices ==
    LET new == NewDevices(devices)
        marked == MarkLoading(devices, new)
        ops == [s \in new |-> "pending"]
    IN /\ new # {}
       /\ devices' = marked
       /\ emitted' = <<DevicesUpdate(marked)>>
       /\ dispatches' = dispatches (+)
            SetToBag({Dispatch("generateScreensForNewDevices", "generate",
                               TargetDevices(devices, new), ops)})
       /\ DispatchRan("dispatch", "generateScreensForNewDevices", new, new, ops,
                      FALSE, {})
       /\ UNCHANGED <<fetches, live, steps, scanVars, appError, busVars>>

\* The updater of the effect's last updateDevices call: a generation that
\* failed was turned into a value with an error by its catch handler.
GeneratedUpdater(prev, targets, ops) ==
    [i \in 1..Len(prev) |->
        IF prev[i].serial \notin DOMAIN ops THEN prev[i]
        ELSE IF ops[prev[i].serial] = "failed"
        THEN Spread(prev[i], [isLoading |-> FALSE, state |-> "offline"])
        ELSE Spread(prev[i],
                [screenImageUrl |-> GeneratedUrl,
                 currentScreenDescription |->
                    GeneratedDescription(EntryOf(targets, prev[i].serial).model, "home"),
                 isLoading |-> FALSE])]

\* One screen generation of the effect settles; after the last one the
\* effect publishes the screens.
GenerateSettle(r, serial, outcome) ==
    LET ops == [r.ops EXCEPT ![serial] = outcome]
    IN /\ r.handler = "generateScreensForNewDevices"
       /\ serial \in Unsettled(r.ops)
       /\ IF Unsettled(ops) # {}
          THEN /\ dispatches' = (dispatches (-) SetToBag({r})) (+)
                        SetToBag({[r EXCEPT !.ops = ops]})
               /\ emitted' = <<>>
               /\ DispatchRan("opSettle", r.handler, DOMAIN ops, DOMAIN ops, ops,
                              FALSE, {})
               /\ UNCHANGED devices
          ELSE /\ dispatches' = dispatches (-) SetToBag({r})
               /\ devices' = GeneratedUpdater(devices, r.targets, ops)
               /\ emitted' = <<DevicesUpdate(devices')>>
               /\ DispatchRan("complete", r.handler, DOMAIN ops, DOMAIN ops, ops,
                              FALSE, {})
       /\ UNCHANGED <<fetches, live, steps, scanVars, appError, busVars>>

\* handleToggleLayoutBounds up to await Promise.all: each target's operation
\* is setLayoutBounds ("pending1") followed by a screen generation ("pending").
HandleToggleLayoutBounds(serials) ==
    LET targetDevices == TargetDevices(devices, serials)
        targets == SerialsOf(targetDevices)
        marked == MarkLoading(devices, targets)
        ops == [s \in targets |-> "pending1"]
    IN /\ Step
       /\ IF targetDevices = <<>>
          THEN /\ emitted' = <<>>
               /\ DispatchRan("noTargets", "handleToggleLayoutBounds", {}, {}, ops,
                              FALSE, {})
               /\ UNCHANGED <<devices, dispatches>>
          ELSE /\ devices' = marked
               /\ emitted' = <<DevicesUpdate(marked)>>
               /\ dispatches' = dispatches (+)
                    SetToBag({Dispatch("handleToggleLayoutBounds", "layout_bounds",
                                       targetDevices, ops)})
               /\ DispatchRan("dispatch", "handleToggleLayoutBounds", targets,
                              targets, ops, FALSE, {})
       /\ UNCHANGED <<fetches, live, scanVars, appError, busVars>>

\* The updater of the try block's updateDevices call.
ToggledUpdater(prev, targets) ==
    [i \in 1..Len(prev) |->
        IF prev[i].serial \in SerialsOf(targets)
        THEN Spread(prev[i],
                [screenImageUrl |-> GeneratedUrl,
                 currentScreenDescription |->
                    GeneratedDescription(prev[i].model, "layout bounds"),
                 isLoading |-> FALSE,
                 layoutBoundsVisible |->
                    ~EntryOf(targets, prev[i].serial).layoutBoundsVisible])
        ELSE Spread(prev[i], [isLoading |-> FALSE])]

\* One call of a toggle operation settles. The first failure rejects
\* Promise.all and the handler runs its catch block; the last success
\* resolves it and the handler runs the rest of its try block.
ToggleOpSettle(r, serial, outcome) ==
    LET ops == [r.ops EXCEPT ![serial] = Settle(r.ops[serial], outcome)]
        done == outcome = "failed" \/ Unsettled(ops) = {}
    IN /\ r.handler = "handleToggleLayoutBounds"
       /\ serial \in Unsettled(r.ops)
       /\ (outcome = "ok" /\ r.ops[serial] = "pending1") => CanSucceed(serial)
       /\ IF ~done
          THEN /\ dispatches' = (dispatches (-) SetToBag({r})) (+)
                        SetToBag({[r EXCEPT !.ops = ops]})
               /\ emitted' = <<>>
               /\ DispatchRan("opSettle", r.handler, DOMAIN ops, DOMAIN ops, ops,
                              FALSE, {})
               /\ UNCHANGED <<devices, appError>>
          ELSE /\ dispatches' = dispatches (-) SetToBag({r})
               /\ devices' = IF outcome = "failed" THEN ClearLoading(devices)
                             ELSE ToggledUpdater(devices, r.targets)
               /\ appError' = IF outcome = "failed" THEN ToggleFailed ELSE appError
               /\ emitted' = <<DevicesUpdate(devices')>>
               /\ DispatchRan("complete", r.handler, DOMAIN ops, DOMAIN ops, ops,
                              FALSE, {})
       /\ UNCHANGED <<fetches, live, steps, scanVars, busVars>>

\* handleReboot: handleAdbCommand(reboot, serials) up to await Promise.all.
HandleReboot(serials) ==
    LET ops == [s \in serials |-> "pending"]
    IN /\ Step
       /\ emitted' = <<>>
       /\ IF serials = {}
          THEN /\ DispatchRan("complete", "handleAdbCommand", {}, {}, ops, FALSE, {})
               /\ UNCHANGED dispatches
          ELSE /\ dispatches' = dispatches (+)
                    SetToBag({Dispatch("handleAdbCommand", "reboot",
                                       TargetDevices(devices, serials), ops)})
               /\ DispatchRan("dispatch", "handleAdbCommand", serials, {}, ops,
                              FALSE, {})
       /\ UNCHANGED <<regVars, scanVars, appError, busVars>>

\* One reboot of handleAdbCommand settles: the first failure rejects
\* Promise.all and the catch block sets the error; the last success ends the
\* handler.
AdbCommandSettle(r, serial, outcome) ==
    LET ops == [r.ops EXCEPT ![serial] = outcome]
        done == outcome = "failed" \/ Unsettled(ops) = {}
    IN /\ r.handler = "handleAdbCommand"
       /\ serial \in Unsettled(r.ops)
       /\ outcome = "ok" => CanSucceed(serial)
       /\ dispatches' = IF done THEN dispatches (-) SetToBag({r})
                        ELSE (dispatches (-) SetToBag({r})) (+)
                                SetToBag({[r EXCEPT !.ops = ops]})
       /\ appError' = IF outcome = "failed" THEN AdbCommandFailed ELSE appError
       /\ emitted' = <<>>
       /\ DispatchRan(IF done THEN "complete" ELSE "opSettle", r.handler,
                      DOMAIN ops, {}, ops, FALSE, {})
       /\ UNCHANGED <<regVars, steps, scanVars, busVars>>

\* The App of App.tsx 1-424 over the service: its screen effect and its
\* fleet handlers, under transport events.
LegacyNext ==
    \/ TransportNext
    \/ GenerateScreensForNewDevices
    \/ \E r \in BagToSet(dispatches), s \in Serials, o \in {"ok", "failed"} :
            GenerateSettle(r, s, o)
    \/ HandleToggleLayoutBounds(GetSerialsForFleet)
    \/ \E r \in BagToSet(dispatches), s \in Serials, o \in {"ok", "failed"} :
            ToggleOpSettle(r, s, o)
    \/ HandleReboot(GetSerialsForFleet)
    \/ \E r \in BagToSet(dispatches), s \in Serials, o \in {"ok", "failed"} :
            AdbCommandSettle(r, s, o)

SpecLegacy == Init /\ [][LegacyNext]_vars

\* ---------------------------------------------------------------- event bus
BusEvents == {"devices-update", "error"}
\* The listeners of devices-update: one that records what it is handed; one
\* that also gives new devices their placeholder screen by calling
\* updateDevices from inside its callback; and three that change the
\* subscriptions from inside their callback: on(event, observer),
\* off(event, observer), off(event). The listener of error records.
ListenerIds == {"observer", "patcher", "subscriber", "leaver", "clearer", "errorHandler"}
DeviceListeners == ListenerIds \ {"errorHandler"}

\* How things stand inside one call of the service: the registry, the
\* listener arrays that exist (an array is pushed to in place, so it has an
\* identity) and the one the listeners map holds for each event, and, for
\* the record, what each listener was handed, the events published, the
\* listeners each publish found registered when it started, and the
\* invocations <<publish, listener>> in the order they were made.
Quiet ==
    [devs |-> devices,
     arrays |-> <<listeners["devices-update"], listeners["error"]>>,
     at |-> [e \in BusEvents |-> IF e = "devices-update" THEN 1 ELSE 2],
     received |-> [id \in ListenerIds |-> <<>>],
     log |-> <<>>, pubs |-> <<>>, invoked |-> <<>>]

\* The listeners map as the call leaves it.
Registered(st) == [e \in BusEvents |-> st.arrays[st.at[e]]]

\* on(event, listener): push onto the event's array.
OnPush(st, event, id) == [st EXCEPT !.arrays[st.at[event]] = Append(@, id)]

\* Removal of the listener's first registration only.
RECURSIVE RemoveFirst(_, _)
RemoveFirst(ls, id) ==
    IF ls = <<>> THEN <<>>
    ELSE IF Head(ls) = id THEN Tail(ls)
    ELSE <<Head(ls)>> \o RemoveFirst(Tail(ls), id)

OffFirstOnly(st, event, id) ==
    [st EXCEPT !.arrays = Append(@, RemoveFirst(st.arrays[st.at[event]], id)),
               !.at[event] = Len(st.arrays) + 1]

\* Removal of the listener from the event's own array.
OffSplice(st, event, id) ==
    [st EXCEPT !.arrays[st.at[event]] = SelectSeq(@, LAMBDA l : l # id)]

\* off(event, listener): the filtered copy replaces the event's array.
OffFilter(st, event, id) ==
    [st EXCEPT !.arrays = Append(@, SelectSeq(st.arrays[st.at[event]], LAMBDA l : l # id)),
               !.at[event] = Len(st.arrays) + 1]

\* off(event): the key is deleted; has(event) is false as for an empty array.
OffDelete(st, event) ==
    [st EXCEPT !.arrays = Append(@, <<>>), !.at[event] = Len(st.arrays) + 1]

\* The array's length read again at every iteration.
ForEachLengthLive(n, st, a) == Len(st.arrays[a])

\* Array.prototype.forEach: the length is read once, before the first call.
ForEachLength(n, st, a) == n

RECURSIVE Emit(_, _, _)
RECURSIVE EmitFrom(_, _, _, _, _, _)

\* this.devices = ...; this.emit('devices-update', [...this.devices])
Publish(devs, st) == Emit("devices-update", devs, [st EXCEPT !.devs = devs])

\* listener(...args) for one listener, in publish number pub.
CallListener(id, pub, payload, st) ==
    LET got == [st EXCEPT !.received[id] = Append(@, payload),
                          !.invoked = Append(@, <<pub, id>>)]
    IN CASE id = "patcher" ->
                IF NewDevices(payload) # {}
                THEN Publish(PlaceholderUpdater(got.devs, NewDevices(payload)), got)
                ELSE got
         [] id = "subscriber" -> OnPush(got, "devices-update", "observer")
         [] id = "leaver" -> OffFilter(got, "devices-update", "observer")
         [] id = "clearer" -> OffDelete(got, "devices-update")
         [] OTHER -> got

\* forEach over array a from index i on; an index the array no longer has
\* is skipped.
EmitFrom(a, n, i, pub, payload, st) ==
    IF i > ForEachLength(n, st, a) THEN st
    ELSE EmitFrom(a, n, i + 1, pub, payload,
                  IF i > Len(st.arrays[a]) THEN st
                  ELSE CallListener(st.arrays[a][i], pub, payload, st))

\* emit: this.listeners.get(event).forEach(listener => listener(...args))
Emit(event, payload, st) ==
    LET a == st.at[event]
    IN EmitFrom(a, Len(st.arrays[a]), 1, Len(st.pubs) + 1, payload,
                [st EXCEPT !.pubs = Append(@, [event |-> event, listeners |-> st.arrays[a]]),
                           !.log = Append(@, [event |-> event, payload |-> payload])])

BusRan(op, st) ==
    last' = [op |-> op, serial |-> Null, present |-> FALSE, received |-> st.received,
             pubs |-> st.pubs, invoked |-> st.invoked]

\* A call of the service that publishes, run with the listeners attached.
Delivered(op, st) ==
    /\ Step
    /\ devices' = st.devs
    /\ listeners' = Registered(st)
    /\ emitted' = st.log
    /\ BusRan(op, st)
    /\ UNCHANGED <<fetches, live, scanVars, dispVars, calls>>

\* A mutator of the registry run with the listeners attached.
Mutate(op, devs) == Delivered(op, Publish(devs, Quiet))

\* A call of on/off from outside a delivery: on(event, id), off(event, id),
\* or off(event) when id is Null; before is the event's array as the call
\* found it.
Subscription(op, event, id, st) ==
    /\ Step
    /\ listeners' = Registered(st)
    /\ emitted' = <<>>
    /\ last' = [op |-> op, serial |-> Null, present |-> FALSE,
                 received |-> st.received, pubs |-> st.pubs, invoked |-> st.invoked,
                 event |-> event, listener |-> id, before |-> listeners[event]]
    /\ UNCHANGED <<regVars, scanVars, dispVars, calls>>

\* on(event, listener)
On(event, id) ==
    /\ Len(listeners[event]) < MaxListeners
    /\ Subscription("on", event, id, OnPush(Quiet, event, id))

\* off(event, listener)
Off(event, id) ==
    Subscription("off", event, id,
                 IF listeners[event] = <<>> THEN Quiet ELSE OffFilter(Quiet, event, id))

\* off(event)
OffEvent(event) ==
    Subscription("off", event, Null,
                 IF listeners[event] = <<>> THEN Quiet ELSE OffDelete(Quiet, event))

\* upsertDevice(device)
Upsert(device) == Mutate("upsertDevice", UpsertDevice(devices, device))

\* The device:remove listener.
Remove(serial) == Mutate("remove", RemoveSerial(devices, serial))

\* updateDevice(serial, updates)
Update(serial, updates) == Mutate("updateDevice", PatchDevice(devices, serial, updates))

\* The catch block of connectDevice: this.emit('error', e)
EmitError == Delivered("error", Emit("error", <<"transport failure">>, Quiet))

\* The devices upsertDevice is called with: fetched ones, for new serials.
Upserted ==
    { NewDevice(s, st, p, <<>>) : s \in Serials, st \in {"device", "offline"}, p \in PropsSet }

\* The registry's mutators and the error publication under listeners
\* registered with on() and removed with off().
BusNext ==
    \/ \E id \in DeviceListeners : On("devices-update", id)
    \/ On("error", "errorHandler")
    \/ \E id \in DeviceListeners : Off("devices-update", id)
    \/ Off("error", "errorHandler")
    \/ \E e \in BusEvents : OffEvent(e)
    \/ \E d \in Upserted : Upsert(d)
    \/ \E s \in Serials : Remove(s)
    \/ \E s \in Serials : Update(s, [isLoading |-> TRUE])
    \/ EmitError

SpecBus == Init /\ [][BusNext]_vars

\* ------------------------------------------------ connections and commands
\* The single-device commands of the service.
ServiceCommands == {"reboot", "getProperties", "uninstall", "forceStop", "exec"}

\* What device.exec resolves with, as the words of its output; <<"throws">>
\* stands for the device call rejecting.
CommandResults == {<<"Success">>, <<"Failure", "[DELETE_FAILED_INTERNAL_ERROR]">>,
                   <<"throws">>}

\* The error a rejected device.exec carries.
ExecError == <<"exec failed">>

\* result.includes(word)
Includes(result, word) == \E i \in 1..Len(result) : result[i] = word

\* uninstall with the failure check left out.
UninstallUnchecked(result) == <<>>

\* uninstall after await device.exec resolved with result: the error it
\* throws, <<>> when it returns.
UninstallCheck(result) ==
    IF Includes(result, "Failure") THEN <<"Failed to uninstall">> \o result ELSE <<>>

\* What a command rejects with once device.exec settled, <<>> when it
\* fulfils: a rejection of exec is propagated by every command.
CommandError(cmd, result) ==
    IF result = <<"throws">> THEN ExecError
    ELSE IF cmd = "uninstall" THEN UninstallCheck(result)
    ELSE <<>>

\* The error adb.connect / adb.disconnect rejects with.
TransportError == <<"transport failure">>

NotFound(serial) == <<"Device", serial, "not found.">>
NotOnline(serial, state) == <<"Device", serial, "is not online", state>>

\* The registry read as a device list.
AdbDevicesCached ==
    [s \in Serials |-> IF Present(s) THEN EntryOf(devices, s).state ELSE "absent"]

\* What await this.adb.getDevices() resolves with.
AdbDevices == live

\* getAdbDevice(serial) on the resolved list: the error it throws, <<>> when
\* it returns the handle.
GetAdbDevice(adbDevices, serial) ==
    IF adbDevices[serial] = "absent" THEN NotFound(serial)
    ELSE IF adbDevices[serial] # "device" THEN NotOnline(serial, adbDevices[serial])
    ELSE <<>>

\* A call of the service suspended at an await.
Call(cmd, serial, pc) == [cmd |-> cmd, serial |-> serial, pc |-> pc]

\* A step of call c: the error it rejected with (<<>> if none) and whether
\* it has issued its command on the device handle.
ServiceRan(op, c, rejected, executed) ==
    last' = [op |-> op, serial |-> c.serial, present |-> Present(c.serial),
             cmd |-> c.cmd, rejected |-> rejected, executed |-> executed]

\* A call of the service up to its first await.
Invoke(c) ==
    /\ Step
    /\ calls' = calls (+) SetToBag({c})
    /\ emitted' = <<>>
    /\ ServiceRan(c.cmd, c, <<>>, FALSE)
    /\ UNCHANGED <<regVars, scanVars, dispVars, listeners>>

\* reboot / getProperties / uninstall / forceStop / exec, up to
\* await this.getAdbDevice(serial).
Command(cmd, serial) == Invoke(Call(cmd, serial, "getAdbDevice"))

\* await this.adb.getDevices() resolved inside getAdbDevice: the call
\* rejects, or issues its command on the handle and waits for it.
GetAdbDeviceResolve(c) ==
    /\ BagIn(c, calls)
    /\ c.pc = "getAdbDevice"
    /\ LET error == GetAdbDevice(AdbDevices, c.serial)
       IN /\ calls' = IF error # <<>>
                      THEN calls (-) SetToBag({c})
                      ELSE (calls (-) SetToBag({c})) (+) SetToBag({[c EXCEPT !.pc = "command"]})
          /\ ServiceRan("getAdbDevice", c, error, error = <<>>)
    /\ emitted' = <<>>
    /\ UNCHANGED <<regVars, steps, scanVars, dispVars, listeners>>

\* The command on the handle settled; uninstall throws on a result that
\* includes 'Failure'.
CommandSettle(c, result) ==
    /\ BagIn(c, calls)
    /\ c.pc = "command"
    /\ calls' = calls (-) SetToBag({c})
    /\ emitted' = <<>>
    /\ last' = [op |-> "commandSettle", serial |-> c.serial,
                 present |-> Present(c.serial), cmd |-> c.cmd,
                 rejected |-> CommandError(c.cmd, result), executed |-> TRUE,
                 result |-> result]
    /\ UNCHANGED <<regVars, steps, scanVars, dispVars, listeners>>

\* connectDevice(ipAddress) up to await this.adb.connect(ipAddress); the
\* address is that of the device named.
ConnectDevice(serial) == Invoke(Call("connectDevice", serial, "connect"))

ConnectCatchSilent(failed) == <<>>

\* What connectDevice publishes when adb.connect settles: the catch block's
\* emit('error', e).
ConnectCatch(failed) ==
    IF failed THEN <<[event |-> "error", payload |-> TransportError]>> ELSE <<>>

\* await this.adb.connect(ipAddress) settled.
ConnectSettle(c, failed) ==
    /\ BagIn(c, calls)
    /\ c.pc = "connect"
    /\ calls' = calls (-) SetToBag({c})
    /\ emitted' = ConnectCatch(failed)
    /\ ServiceRan("connectSettle", c, IF failed THEN TransportError ELSE <<>>, FALSE)
    /\ UNCHANGED <<regVars, steps, scanVars, dispVars, listeners>>

\* disconnectDevice(serial) up to await this.adb.disconnect(ip)
DisconnectDevice(serial) == Invoke(Call("disconnectDevice", serial, "disconnect"))

\* A disconnectDevice that drops the device's entry itself.
DisconnectForgets(devs, serial) == RemoveSerial(devs, serial)

\* The registry as disconnectDevice leaves it: the method writes no field of
\* the service.
DisconnectKeeps(devs, serial) == devs

\* await this.adb.disconnect(ip) settled: the call settles the same way.
DisconnectSettle(c, failed) ==
    /\ BagIn(c, calls)
    /\ c.pc = "disconnect"
    /\ calls' = calls (-) SetToBag({c})
    /\ devices' = DisconnectKeeps(devices, c.serial)
    /\ emitted' = <<>>
    /\ ServiceRan("disconnectSettle", c, IF failed THEN TransportError ELSE <<>>, FALSE)
    /\ UNCHANGED <<fetches, live, steps, scanVars, dispVars, listeners>>

\* The service under connection and command calls while the transport
\* reports devices.
ServiceNext ==
    \/ \E s \in Serials, st \in EventStates : DeviceAdd(s, st)
    \/ \E s \in Serials, st \in EventStates : DeviceChange(s, st)
    \/ \E s \in Serials : DeviceRemove(s)
    \/ \E f \in BagToSet(fetches), p \in PropsSet : FetchResolve(f, p)
    \/ \E f \in BagToSet(fetches) : FetchReject(f)
    \/ \E cmd \in ServiceCommands, s \in Serials : Command(cmd, s)
    \/ \E c \in BagToSet(calls) : GetAdbDeviceResolve(c)
    \/ \E c \in BagToSet(calls), r \in CommandResults : CommandSettle(c, r)
    \/ \E s \in Serials : ConnectDevice(s)
    \/ \E c \in BagToSet(calls), f \in BOOLEAN : ConnectSettle(c, f)
    \/ \E s \in Serials : DisconnectDevice(s)
    \/ \E c \in BagToSet(calls), f \in BOOLEAN : DisconnectSettle(c, f)
    \/ \E s \in Serials : UpdateDevice(s, [isLoading |-> TRUE])

SpecService == Init /\ [][ServiceNext]_vars

\* --------------------------------------------- the collection as an object
\* A disconnectAll call suspended at await this.disconnectDevice(...): its
\* for...of loop holds a reference to the array this.devices was when the
\* loop started. view is what that array holds now, aliased whether it is
\* still the array this.devices refers to, idx the loop's position in it;
\* for the record, start is the serials the registry held when
\* disconnectAll was called.
Holder(view, aliased, idx, start) ==
    [cmd |-> "disconnectAll", serial |-> view[idx].serial, pc |-> "disconnect",
     view |-> view, aliased |-> aliased, idx |-> idx, start |-> start]

Holders(bag) == { c \in BagToSet(bag) : c.cmd = "disconnectAll" }

\* this.devices[index] = ... / this.devices.push(...): the array this.devices
\* refers to is written, so every reference to it shows the new contents.
WrittenInPlace(devs) ==
    LET Seen(c) == IF c.aliased THEN [c EXCEPT !.view = devs] ELSE c
    IN BagOfAll(Seen, calls)

\* this.devices = <a new array>: earlier references keep the old array.
Replaced ==
    LET Kept(c) == [c EXCEPT !.aliased = FALSE]
    IN BagOfAll(Kept, calls)

\* disconnectAll() up to its first await; with no devices it returns.
DisconnectAll ==
    /\ Step
    /\ calls' = IF devices = <<>> THEN calls
                ELSE calls (+) SetToBag({Holder(devices, TRUE, 1,
                                                [i \in 1..Len(devices) |-> devices[i].serial])})
    /\ emitted' = <<>>
    /\ last' = [op |-> "disconnectAll", serial |-> Null, present |-> FALSE]
    /\ UNCHANGED <<regVars, scanVars, dispVars, listeners>>

\* A loop body without the try/catch: the rejection leaves the loop.
DisconnectAllUncaught(failed) ==
    [rejected |-> IF failed THEN TransportError ELSE <<>>, goesOn |-> ~failed]

\* The body of disconnectAll's loop once the disconnect settled: the catch
\* block logs a rejection, and the loop goes on.
DisconnectAllCatch(failed) == [rejected |-> <<>>, goesOn |-> TRUE]

\* await this.disconnectDevice(device.serial) settled; a rejection is caught
\* and logged. The iterator goes on to the next index the array has now.
DisconnectAllSettle(c, failed) ==
    /\ c \in Holders(calls)
    /\ calls' = IF DisconnectAllCatch(failed).goesOn /\ c.idx + 1 <= Len(c.view)
                THEN (calls (-) SetToBag({c}))
                     (+) SetToBag({Holder(c.view, c.aliased, c.idx + 1, c.start)})
                ELSE calls (-) SetToBag({c})
    /\ emitted' = <<>>
    /\ last' = [op |-> "disconnectAllSettle", serial |-> c.serial,
                present |-> Present(c.serial), failed |-> failed,
                rejected |-> DisconnectAllCatch(failed).rejected,
                idx |-> c.idx, start |-> c.start]
    /\ UNCHANGED <<regVars, steps, scanVars, dispVars, listeners>>

\* The continuation of handleDeviceUpdate calling upsertDevice.
CollectionUpsert(f, device) ==
    /\ BagIn(f, fetches)
    /\ devices' = UpsertDevice(devices, device)
    /\ calls' = WrittenInPlace(devices')
    /\ emitted' = <<DevicesUpdate(devices')>>
    /\ Ran("upsertDevice", f.serial)
    /\ fetches' = fetches (-) SetToBag({f})
    /\ UNCHANGED <<live, steps, scanVars, dispVars, listeners>>

\* adb 'device:add' for a serial the registry does not hold.
CollectionAdd(serial, state) ==
    /\ FindIndex(devices, serial) = 0
    /\ DeviceAdd(serial, state)

\* adb 'device:remove': this.devices = this.devices.filter(...)
CollectionRemove(serial) ==
    /\ Step
    /\ live[serial] # "absent"
    /\ live' = [live EXCEPT ![serial] = "absent"]
    /\ devices' = RemoveSerial(devices, serial)
    /\ calls' = Replaced
    /\ emitted' = <<DevicesUpdate(devices')>>
    /\ Ran("remove", serial)
    /\ UNCHANGED <<fetches, scanVars, dispVars, listeners>>

\* updateDevice(serial, updates): this.devices = updater(this.devices)
CollectionUpdate(serial, updates) ==
    /\ Step
    /\ devices' = PatchDevice(devices, serial, updates)
    /\ calls' = Replaced
    /\ emitted' = <<DevicesUpdate(devices')>>
    /\ Ran("updateDevice", serial)
    /\ UNCHANGED <<fetches, live, scanVars, dispVars, listeners>>

\* The registry's array under its mutators while disconnectAll calls iterate
\* over it.
CollectionNext ==
    \/ \E s \in Serials, st \in EventStates : CollectionAdd(s, st)
    \/ \E f \in BagToSet(fetches), p \in PropsSet :
            CollectionUpsert(f, NewDevice(f.serial, f.state, p, f.existing))
    \/ \E f \in BagToSet(fetches) :
            CollectionUpsert(f, PlaceholderDevice(f.serial, f.state))
    \/ \E s \in Serials : CollectionRemove(s)
    \/ \E s \in Serials : CollectionUpdate(s, [isLoading |-> TRUE])
    \/ DisconnectAll
    \/ \E c \in BagToSet(calls), f \in BOOLEAN : DisconnectAllSettle(c, f)

SpecCollection == Init /\ [][CollectionNext]_vars

\* ------------------------------------------------------------------ claims

\* A transport add or change event for serial carrying state is handled in
\* this step.
EventStep(serial, state) ==
    /\ steps' = steps + 1
    /\ last'.op \in {"fetch", "statePatch"}
    /\ last'.serial = serial
    /\ live'[serial] = state

\* C1: no two entries of the registry share a serial, whatever the
\* interleaving of transport events, fetch completions and patches; so an
\* upsert for a serial already present never adds a second entry.
C1_SerialUnique ==
    \A i, j \in 1..Len(devices) : devices[i].serial = devices[j].serial => i = j

\* A fetch completed for a serial that was already registered, next to
\* another device.
C1_Witness ==
    /\ last.op \in {"fetchResolve", "fetchReject"}
    /\ last.present
    /\ Len(devices) = 2

\* C8: an add/change event for a registered device that is not a transition
\* from a non-online state into online changes only that device's state
\* field and starts no property fetch.
C8_StateOnlyPatch ==
    [][\A s \in Serials, st \in AdbStates :
        (/\ EventStep(s, st)
         /\ Present(s)
         /\ ~(EntryOf(devices, s).state # "device" /\ st = "device"))
        => /\ fetches' = fetches
           /\ Len(devices') = Len(devices)
           /\ \A i \in 1..Len(devices) :
                devices'[i] = IF devices[i].serial = s
                              THEN [devices[i] EXCEPT !.state = st]
                              ELSE devices[i]]_vars

\* An online device that is loading, with fetched name, went offline by a
\* state-only patch.
C8_Witness ==
    /\ last.op = "statePatch"
    /\ Present(last.serial)
    /\ EntryOf(devices, last.serial).state = "offline"
    /\ EntryOf(devices, last.serial).isLoading
    /\ EntryOf(devices, last.serial).model = "Pixel"

\* C9: when the property fetch of an add/change event fails, the device is
\* in the registry afterwards with the event's state and the placeholder name
\* for that state, and no device has left the registry.
C9_FetchFailureKeepsDevice ==
    [][\A f \in BagToSet(fetches) :
        (last'.op = "fetchReject" /\ fetches' = fetches (-) SetToBag({f}))
        => /\ FindIndex(devices', f.serial) > 0
           /\ EntryOf(devices', f.serial).state = f.state
           /\ EntryOf(devices', f.serial).name =
                IF f.state = "unauthorized" THEN <<"Unauthorized Device">>
                                            ELSE <<"Unknown Device">>
           /\ SerialsOf(devices) \subseteq SerialsOf(devices')]_vars

\* A failed fetch for an unauthorized device that was not yet registered.
C9_Witness ==
    /\ last.op = "fetchReject"
    /\ ~last.present
    /\ Present(last.serial)
    /\ EntryOf(devices, last.serial).state = "unauthorized"
    /\ EntryOf(devices, last.serial).name = <<"Unauthorized Device">>

MutationOps ==
    {"statePatch", "remove", "fetchResolve", "fetchReject", "updateDevice",
     "updateDevices"}

\* C10: every registry mutation publishes exactly one devices-update event,
\* whose payload is the whole registry as it is right after that mutation.
C10_OneFullSnapshotPerMutation ==
    [][(last'.op \in MutationOps \/ devices' # devices)
        => emitted' = <<[event |-> "devices-update", payload |-> devices']>>]_vars

\* A removal that left one device in the registry, published as a snapshot.
C10_Witness ==
    /\ last.op = "remove"
    /\ last.present
    /\ Len(devices) = 1
    /\ emitted = <<[event |-> "devices-update", payload |-> devices]>>


\* C2: at most one scanNetwork call is in progress (still issuing batches or
\* still due to publish scan-complete) at any time.
C2_AtMostOneScan == Len(scans) <= 1

\* C3: a scanNetwork() call made while a scan is active (a call in progress
\* that cancelScan() has not been called on since it started) is a no-op: no
\* second scan, no probe, no scan-progress, no further scan-complete.
C3_ScanWhileActiveNoOp ==
    [][(/\ last'.op = "scanNetwork"
        /\ steps' = steps + 1
        /\ \E l \in 1..Len(scans) : ~scans[l].cancelled)
       => /\ scans' = scans
          /\ isScanning' = isScanning
          /\ emitted' = <<>>]_vars

DispatchOps == {"dispatch", "opSettle", "complete", "noTargets"}
FleetHandlers == {"runAdbCommandOnFleet", "handleToggleLayoutBounds", "handleAdbCommand"}

\* C4: when a fleet or single-device dispatch has finished, by running to its
\* end or by throwing, every device it marked loading that is still in the
\* registry has isLoading = false.
C4_NoDispatchLeavesLoading ==
    last.op = "complete"
    => \A s \in last.marked : Present(s) => ~EntryOf(devices, s).isLoading

\* C5: a finished fleet dispatch in which some operations succeeded and some
\* failed has reported a summary with the number of successes and, for every
\* failed device, an entry with its name and failure reason.
C5_FleetOutcomeReportsFailures ==
    (/\ last.op = "complete"
     /\ last.handler = "runAdbCommandOnFleet"
     /\ last.succeeded # {}
     /\ last.failed # {})
    => \E r \in last.report :
          /\ r.successes = Cardinality(last.succeeded)
          /\ \A s \in last.failed : \E f \in r.failures : f.serial = s

\* C6: a fleet dispatch reaches its completion step only when an operation
\* was issued for every target and every one of them has settled.
C6_SettleAll ==
    (last.op = "complete" /\ last.handler \in FleetHandlers)
    => /\ last.issued = last.targets
       /\ last.unsettled = {}

\* C7: a fleet dispatch targets exactly the devices that are online in the
\* registry when it is called, issues operations for targets only, and none
\* of its steps changes the registry entry of a device outside its targets.
C7_FleetDispatchFrame ==
    [][(last'.op \in DispatchOps /\ last'.handler \in FleetHandlers)
       => /\ last'.op \in {"dispatch", "noTargets"}
                => last'.targets = SerialsOf(OnlineDevices(devices))
          /\ last'.issued \subseteq last'.targets
          /\ \A i \in 1..Len(devices) :
                devices[i].serial \notin last'.targets
                => /\ i <= Len(devices')
                   /\ devices'[i] = devices[i]]_vars

BusMutations == {"upsertDevice", "remove", "updateDevice"}
Registrations(id) ==
    Cardinality({ i \in 1..Len(listeners["devices-update"]) :
                    listeners["devices-update"][i] = id })

\* C11: a listener of devices-update is handed the snapshots in the order the
\* mutations were applied, so the last snapshot it was handed is the current
\* registry, also when a listener mutates the registry during a delivery.
C11_SnapshotsInMutationOrder ==
    [][last'.op \in BusMutations
       => \A id \in ListenerIds :
            Registrations(id) = 1
            => /\ last'.received[id] = [i \in 1..Len(emitted') |-> emitted'[i].payload]
               /\ last'.received[id][Len(emitted')] = devices']_vars

\* C12: no connect of a batch goes to an address that was the ipAddress of a
\* registered device when the batch was built.
C12_NoProbeToRegistered ==
    \A l \in 1..Len(scans) :
        scans[l].pc = "batch"
        => \A j \in scans[l].hosts :
              <<scans[l].subnets[scans[l].k], j>> \notin scans[l].known

\* The first batch of 192.168.1 was built with a device registered at
\* 192.168.1.20: nineteen connects went out, none of them to host 20.
C12_Witness ==
    \E l \in 1..Len(scans) :
        /\ scans[l].pc = "batch"
        /\ scans[l].subnets = CommonSubnets
        /\ scans[l].k = 1
        /\ scans[l].i = 1
        /\ <<"192.168.1", 20>> \in scans[l].known
        /\ scans[l].hosts = (1..20) \ {20}

\* The batches of a full sweep of the given prefixes: each prefix in turn,
\* its hosts from 1 to 254 in ascending runs of twenty.
ExpectedSweep(subnets) ==
    LET perSubnet == (254 - 1) \div 20 + 1
    IN [n \in 1..(Len(subnets) * perSubnet) |->
          LET first == 1 + ((n - 1) % perSubnet) * 20
          IN <<subnets[(n - 1) \div perSubnet + 1], first,
               IF first + 19 < 254 THEN first + 19 ELSE 254>>]

\* C13: a scan that cancelScan() was never called on has, when it returns,
\* swept 192.168.1, 192.168.0, 10.0.0 in that order if detection yielded
\* nothing and only the detected prefix otherwise, hosts 1 to 254 of each in
\* ascending order, and has issued one connect for each swept address that
\* was not registered when its batch was built.
C13_FallbackSweep ==
    (/\ last.op \in {"detectResolve", "batchDone"}
     /\ last.returned # <<>>
     /\ ~last.returned[1].cancelled)
    => LET scan == last.returned[1]
           prefixes == IF scan.detected = Null
                       THEN <<"192.168.1", "192.168.0", "10.0.0">>
                       ELSE <<scan.detected>>
       IN /\ scan.swept = ExpectedSweep(prefixes)
          /\ scan.probes = 254 * Len(prefixes) - scan.skipped

\* C14: cancelScan() leaves the connects of a batch in flight to settle, and
\* a scanNetwork call that cancelScan() was called on builds no further
\* batch, in its current prefix or in a later one.
C14_CancelAtNextBoundary ==
    [][/\ last'.op = "cancelScan"
          => \A l \in 1..Len(scans) :
                /\ scans'[l].pending = scans[l].pending
                /\ scans'[l].hosts = scans[l].hosts
       /\ Len(scans') = Len(scans)
          => \A l \in 1..Len(scans) :
                scans[l].cancelled
                => Len(scans'[l].swept) = Len(scans[l].swept)]_vars

CompleteCount(events) ==
    Cardinality({ i \in 1..Len(events) : events[i].event = "scan-complete" })

\* C15: every scanNetwork call in progress returns in the end; a call
\* publishes scan-complete once, when it returns, with the scanning flag
\* cleared; and a scanNetwork() call made right after that starts a scan.
C15_ScanFinishes ==
    /\ (Len(scans) > 0) ~> (Len(scans) = 0)
    /\ [][/\ CompleteCount(emitted') = IF Len(scans') < Len(scans) THEN 1 ELSE 0
          /\ Len(scans') < Len(scans) => ~isScanning'
          /\ (/\ emitted # <<>>
              /\ emitted[Len(emitted)].event = "scan-complete"
              /\ last'.op = "scanNetwork")
             => /\ isScanning'
                /\ Len(scans') = Len(scans) + 1]_vars

\* A call that swept all three fallback prefixes has returned: scan-complete
\* is published and the flag is cleared.
C15_Witness ==
    /\ last.op = "batchDone"
    /\ last.returned # <<>>
    /\ Len(last.returned[1].swept) = 39
    /\ emitted[Len(emitted)].event = "scan-complete"
    /\ ~isScanning

\* The connects in flight, over all scanNetwork calls in progress.
RECURSIVE ProbesInFlight(_)
ProbesInFlight(loops) ==
    IF loops = <<>> THEN 0 ELSE loops[1].pending + ProbesInFlight(Tail(loops))

\* C16: never more than 20 scan connects are in flight, and a call builds
\* its next batch only when every connect of its previous batch has settled.
C16_BoundedBatches ==
    [][/\ ProbesInFlight(scans') <= 20
       /\ Len(scans') = Len(scans)
          => \A l \in 1..Len(scans) :
                Len(scans'[l].swept) > Len(scans[l].swept) => scans[l].pending = 0]_vars

\* A step in which connects of a batch were rejected.
ProbeFailed == last'.op = "probeFail" /\ scans' # scans

\* C17: a rejected scan connect publishes no event and leaves the registry,
\* the scanning flag and every call in progress where they were, but for
\* the count of connects the batch still waits for; the call goes on.
C17_ProbeFailureSwallowed ==
    [][ProbeFailed
       => /\ emitted' = <<>>
          /\ regVars' = regVars
          /\ isScanning' = isScanning
          /\ Len(scans') = Len(scans)
          /\ \A l \in 1..Len(scans) :
                /\ [scans'[l] EXCEPT !.pending = 0] = [scans[l] EXCEPT !.pending = 0]
                /\ scans'[l].pending <= scans[l].pending]_vars

\* Connects of a call's second batch were rejected while one connect of
\* the batch is still in flight, with a device registered.
C17_Witness ==
    /\ last.op = "probeFail"
    /\ devices # <<>>
    /\ emitted = <<>>
    /\ \E l \in 1..Len(scans) :
          /\ scans[l].pc = "batch"
          /\ Len(scans[l].swept) = 2
          /\ scans[l].pending = 1

\* A step in which a call's lookup of its target resolved.
TargetResolved == last'.op = "getAdbDevice" /\ calls' # calls

\* C18: a single-device command takes its target from the transport's list
\* as it is when the lookup resolves: absent there, the call rejects with
\* the not-found error; there but not in state 'device', with the
\* not-online error; in both cases no command is issued on a handle, the
\* call is over, and the registry is unchanged and nothing is published.
\* Otherwise the command is issued.
C18_TargetFromLiveList ==
    [][TargetResolved
       => LET s == last'.serial
              c == Call(last'.cmd, s, "getAdbDevice")
          IN /\ last'.cmd \in ServiceCommands
             /\ live[s] = "absent" => last'.rejected = NotFound(s)
             /\ live[s] \notin {"absent", "device"}
                => last'.rejected = NotOnline(s, live[s])
             /\ live[s] = "device" <=> last'.rejected = <<>>
             /\ last'.executed <=> last'.rejected = <<>>
             /\ last'.rejected # <<>> => calls' = calls (-) SetToBag({c})
             /\ last'.rejected = <<>>
                => calls' = (calls (-) SetToBag({c})) (+) SetToBag({[c EXCEPT !.pc = "command"]})
             /\ regVars' = regVars
             /\ emitted' = <<>>]_vars

\* A command was rejected as not online for a device the registry still
\* shows in state 'device'.
C18_Witness ==
    /\ last.op = "getAdbDevice"
    /\ last.rejected = NotOnline(last.serial, "offline")
    /\ ~last.executed
    /\ Present(last.serial)
    /\ EntryOf(devices, last.serial).state = "device"

\* A step in which a connectDevice call's adb.connect was rejected.
ConnectFailed ==
    /\ last'.op = "connectSettle"
    /\ calls' # calls
    /\ last'.rejected # <<>>

\* C19: a connectDevice whose adb.connect fails rejects with that failure
\* and publishes exactly one event, an error event carrying it; the
\* registry, the listeners, the scanner and the other calls in progress are
\* left as they were.
C19_ConnectFailure ==
    [][ConnectFailed
       => /\ last'.rejected = TransportError
          /\ emitted' = <<[event |-> "error", payload |-> last'.rejected]>>
          /\ regVars' = regVars
          /\ scanVars' = scanVars
          /\ listeners' = listeners
          /\ calls' = calls (-) SetToBag({Call("connectDevice", last'.serial, "connect")})]_vars

\* A connect failed with a device registered and another call in progress.
C19_Witness ==
    /\ last.op = "connectSettle"
    /\ last.rejected = TransportError
    /\ Len(emitted) = 1
    /\ devices # <<>>
    /\ calls # EmptyBag

\* A step in which a disconnectDevice call's adb.disconnect was rejected.
DisconnectFailed ==
    /\ last'.op = "disconnectSettle"
    /\ calls' # calls
    /\ last'.rejected # <<>>

\* C20: a disconnectDevice whose adb.disconnect fails rejects with that
\* failure and publishes an error event.
C20_DisconnectFailure ==
    [][DisconnectFailed
       => /\ last'.rejected = TransportError
          /\ \E i \in 1..Len(emitted') : emitted'[i].event = "error"]_vars

\* The steps that publish with the listeners attached.
BusPublications == {"upsertDevice", "remove", "updateDevice", "error"}

\* The listeners publish k of the last call invoked, in order.
RECURSIVE InvokedBy(_, _)
InvokedBy(k, invoked) ==
    IF invoked = <<>> THEN <<>>
    ELSE IF invoked[1][1] = k
         THEN <<invoked[1][2]>> \o InvokedBy(k, Tail(invoked))
         ELSE InvokedBy(k, Tail(invoked))

Count(id, ids) == Cardinality({ i \in 1..Len(ids) : ids[i] = id })

WasInvoked(id, invoked) == \E i \in 1..Len(invoked) : invoked[i][2] = id

\* C21: an off(event, listener) or off(event) made from inside a delivery
\* does not change whom that publish calls: every listener registered when
\* the publish started is called, the unsubscribed one included. When the
\* call is over the unsubscribed listener is registered no more, and the
\* next call's publish starts from the listeners registered then.
C21_OffDuringDelivery ==
    [][(/\ last'.op \in BusPublications
        /\ \/ WasInvoked("leaver", last'.invoked)
           \/ WasInvoked("clearer", last'.invoked))
       => /\ \A k \in 1..Len(last'.pubs) :
                InvokedBy(k, last'.invoked) = last'.pubs[k].listeners
          /\ last'.pubs[1].listeners = listeners[last'.pubs[1].event]
          /\ (~WasInvoked("subscriber", last'.invoked)
              /\ WasInvoked("leaver", last'.invoked))
             => Count("observer", listeners'["devices-update"]) = 0
          /\ (~WasInvoked("subscriber", last'.invoked)
              /\ WasInvoked("clearer", last'.invoked))
             => listeners'["devices-update"] = <<>>]_vars

\* A listener unsubscribed the observer registered after it, and the
\* observer was still called by that publish.
C21_Witness ==
    /\ last.op = "upsertDevice"
    /\ last.pubs[1].listeners = <<"leaver", "observer">>
    /\ last.invoked = <<<<1, "leaver">>, <<1, "observer">>>>
    /\ listeners["devices-update"] = <<"leaver">>

\* C22: every publish calls the listeners registered for its event when it
\* started, once per registration and in registration order, within the
\* call that publishes; the first publish of a call starts from the
\* listeners registered before the call. A listener subscribed from inside
\* a delivery is not called by that publish and is registered when the call
\* is over. The listener of error is called by a publish of error only.
C22_SynchronousDelivery ==
    [][last'.op \in BusPublications
       => /\ \A k \in 1..Len(last'.pubs) :
                InvokedBy(k, last'.invoked) = last'.pubs[k].listeners
          /\ last'.pubs[1].listeners = listeners[last'.pubs[1].event]
          /\ \A n \in 1..Len(last'.invoked) :
                last'.invoked[n][2] = "errorHandler"
                <=> last'.pubs[last'.invoked[n][1]].event = "error"
          /\ (/\ ~WasInvoked("leaver", last'.invoked)
              /\ ~WasInvoked("clearer", last'.invoked))
             => Count("observer", listeners'["devices-update"])
                = Count("observer", listeners["devices-update"])
                  + Count("subscriber", [n \in 1..Len(last'.invoked) |-> last'.invoked[n][2]])
          /\ listeners'["error"] = listeners["error"]]_vars

\* A listener subscribed the observer from inside a delivery: that publish
\* did not call the observer, the next one (made from inside the same
\* delivery) did.
C22_Witness ==
    /\ last.op = "upsertDevice"
    /\ last.pubs[1].listeners = <<"subscriber", "patcher">>
    /\ InvokedBy(1, last.invoked) = <<"subscriber", "patcher">>
    /\ Len(last.pubs) = 2
    /\ InvokedBy(2, last.invoked) = <<"subscriber", "patcher", "observer">>
    /\ Count("observer", listeners["devices-update"]) = 2

\* C23: when a layout_bounds dispatch is over, a targeted device whose
\* toggle operation failed has the layoutBoundsVisible it had when the
\* dispatch took its snapshot.
C23_ToggleOnlyOnSuccess ==
    [][\A r \in BagToSet(dispatches) :
          (/\ r.cmd = "layout_bounds"
           /\ last'.op = "complete"
           /\ dispatches' # dispatches
           /\ dispatches' = dispatches (-) SetToBag({r}))
          => \A i \in 1..Len(r.targets) :
                (/\ r.targets[i].serial \in last'.failed
                 /\ FindIndex(devices', r.targets[i].serial) > 0)
                => EntryOf(devices', r.targets[i].serial).layoutBoundsVisible
                   = r.targets[i].layoutBoundsVisible]_vars

\* C24: a serial the transport has removed (or never reported) and the
\* registry does not hold stays out of the registry in every step but a
\* transport add or change event for it.
C24_RemovedStaysAbsent ==
    [][\A s \in Serials :
          (/\ live[s] = "absent"
           /\ FindIndex(devices, s) = 0
           /\ live'[s] = "absent")
          => FindIndex(devices', s) = 0]_vars

\* A step in which a transport add or change event was handled.
EventHandled == steps' = steps + 1 /\ last'.op \in {"fetch", "statePatch"}

\* C25: a transport add or change event starts a property fetch exactly
\* when the registry does not hold its serial, or holds it in a state other
\* than 'device' while the event's state is 'device'; it starts one fetch
\* then, and no other step starts a fetch.
C25_FetchOnlyWhenNeeded ==
    [][IF EventHandled
       THEN LET s == last'.serial
                needed == \/ FindIndex(devices, s) = 0
                          \/ /\ EntryOf(devices, s).state # "device"
                             /\ live'[s] = "device"
            IN /\ needed => fetches' = fetches (+) SetToBag({Fetch(s, live'[s], FindDevice(devices, s))})
               /\ ~needed => fetches' = fetches
       ELSE BagCardinality(fetches') <= BagCardinality(fetches)]_vars

\* An event reported a registered offline device online and started a
\* fetch for it; the registry still shows it offline.
C25_Witness ==
    /\ last.op = "fetch"
    /\ last.present
    /\ EntryOf(devices, last.serial).state = "offline"
    /\ live[last.serial] = "device"
    /\ BagCardinality(fetches) = 1

\* C26: every device a dispatch in flight has marked is shown with
\* isLoading true for as long as the registry holds it and the dispatch has
\* not finished.
C26_LoadingWhileInFlight ==
    \A r \in BagToSet(dispatches) :
        \A i \in 1..Len(r.targets) :
            FindIndex(devices, r.targets[i].serial) > 0
            => EntryOf(devices, r.targets[i].serial).isLoading

\* A step of a fleet dispatch: its start, the settling of one of its
\* operations, or its end.
FleetStep ==
    /\ last'.op \in {"dispatch", "opSettle", "complete"}
    /\ last'.handler = "runAdbCommandOnFleet"
    /\ steps' = steps + 1 \/ dispatches' # dispatches

\* No step of a fleet dispatch publishes an error event, and the settling of
\* one device's operation leaves the operations of the others as they were.
RejectionIsolated ==
    FleetStep
    => /\ \A i \in 1..Len(emitted') : emitted'[i].event # "error"
       /\ \A r \in BagToSet(dispatches) :
             (dispatches' # dispatches /\ ~BagIn(r, dispatches'))
             => /\ Failed(r.ops) \subseteq last'.failed
                /\ Succeeded(r.ops) \subseteq last'.succeeded
                /\ Cardinality(Unsettled(r.ops) \ last'.unsettled) <= 1

\* C27: a command that fails for one device of a fleet dispatch publishes
\* no error event and leaves the other targeted devices' operations and
\* results as they would be without it: their operations settle on their
\* own, and when the dispatch is over the other devices are finished. The
\* device a throwing command was issued for is the first of the snapshot.
C27_FleetFailureIsolated ==
    [][/\ RejectionIsolated
       /\ (FleetStep /\ last'.op = "complete" /\ (last'.faulted \/ last'.failed # {}))
          => \A s \in last'.targets \ (last'.failed \cup
                       (IF last'.faulted THEN {OnlineDevices(devices)[1].serial} ELSE {})) :
                FindIndex(devices', s) > 0 => ~EntryOf(devices', s).isLoading]_vars

\* C28: a mutation of the registry leaves every reference to the collection
\* taken before it showing what it showed: the arrays the disconnectAll
\* loops hold are the same after the step as before it.
C28_NeverMutatedInPlace ==
    [][devices' # devices
       => { c.view : c \in Holders(calls') } = { c.view : c \in Holders(calls) }]_vars

\* isLoading of serial in a registry; FALSE when the registry lacks it.
LoadingIn(devs, serial) ==
    FindIndex(devs, serial) > 0 /\ EntryOf(devs, serial).isLoading

\* The registries a step went through: the one before it, then the payload
\* of each devices-update it published.
Passed(before, events) ==
    <<before>> \o [i \in 1..Len(events) |-> events[i].payload]

\* The times serial went from loading to not loading along the registries.
Cleared(regs, serial) ==
    { i \in 2..Len(regs) : LoadingIn(regs[i - 1], serial) /\ ~LoadingIn(regs[i], serial) }

\* C29: a fleet dispatch first publishes one devices-update in which every
\* targeted device is loading and nothing else has changed; the step in
\* which it ends leaves no targeted device loading, having cleared each
\* one's isLoading at most once.
C29_FleetMarksOnceClearsOnce ==
    [][(FleetStep /\ last'.targets # {})
       => /\ steps' = steps + 1
             => /\ emitted' # <<>>
                /\ emitted'[1] = DevicesUpdate(MarkLoading(devices, last'.targets))
                /\ \A s \in last'.targets : LoadingIn(emitted'[1].payload, s)
          /\ last'.op = "complete"
             => \A s \in last'.targets :
                   /\ ~LoadingIn(devices', s)
                   /\ Cardinality(Cleared(Passed(devices, emitted'), s)) <= 1]_vars

\* Call l's batch is over in this step: its await Promise.allSettled
\* returned.
BatchOver(l) ==
    /\ last'.op = "batchDone"
    /\ scans[l].pc = "batch"
    /\ scans[l].pending = 0
    /\ IF Len(scans') = Len(scans)
       THEN scans'[l] # scans[l]
       ELSE last'.returned[1].swept = scans[l].swept

ProgressEvents(events) ==
    { i \in 1..Len(events) : events[i].event = "scan-progress" }

\* What is published when call l's batch is over, with counted the number
\* of addresses the percentage is taken of: one scan-progress event, its
\* currentIp the batch's last address, its found the registry's size, its
\* progress the rounded percentage of counted out of 254 per prefix, an
\* integer in 0..100 and not less than before the batch; 100 when the call
\* has swept all its prefixes.
ProgressPublished(l, counted) ==
    LET cur == scans[l]
        batch == cur.swept[Len(cur.swept)]
        total == 254 * Len(cur.subnets)
        p == emitted'[1].payload
    IN /\ ProgressEvents(emitted') = {1}
       /\ p.currentIp = <<batch[1], batch[3]>>
       /\ p.found = Len(devices)
       /\ p.progress = (200 * counted + total) \div (2 * total)
       /\ p.progress \in 0..100
       /\ p.progress >= (200 * (cur.probes + cur.skipped - (batch[3] - batch[2] + 1)) + total)
                        \div (2 * total)
       /\ Len(cur.swept) = 13 * Len(cur.subnets) => p.progress = 100

C31_UninstallFailure ==
    [][(last'.op = "commandSettle" /\ last'.cmd = "uninstall")
       => /\ last'.result = <<"throws">> => last'.rejected = ExecError
          /\ (last'.result # <<"throws">> /\ Includes(last'.result, "Failure"))
             => /\ last'.rejected # <<>>
                /\ last'.rejected # ExecError
                /\ SubSeq(last'.rejected, 2, Len(last'.rejected)) = last'.result
          /\ (last'.result # <<"throws">> /\ ~Includes(last'.result, "Failure"))
             => last'.rejected = <<>>]_vars

\* An uninstall rejected because the output of a resolved device command
\* included 'Failure'.
C31_Witness ==
    /\ last.op = "commandSettle"
    /\ last.cmd = "uninstall"
    /\ last.result = <<"Failure", "[DELETE_FAILED_INTERNAL_ERROR]">>
    /\ last.rejected # <<>>

\* The registrations of listeners other than id, in their order.
Without(ls, id) == SelectSeq(ls, LAMBDA l : l # id)

\* C32: off(event) leaves the event without listeners; off(event, listener)
\* removes every registration of that listener and keeps the others in
\* their registration order; the listeners of every other event are as
\* before; off for an event that has no listener changes nothing.
C32_OffRemoves ==
    [][last'.op = "off"
       => LET e == last'.event
          IN /\ last'.listener = Null => listeners'[e] = <<>>
             /\ last'.listener # Null
                => listeners'[e] = Without(listeners[e], last'.listener)
             /\ \A o \in BusEvents \ {e} : listeners'[o] = listeners[o]
             /\ listeners[e] = <<>> => listeners' = listeners]_vars

\* off(event, listener) removed both registrations of a listener that had
\* been registered twice.
C32_Witness ==
    /\ last.op = "off"
    /\ last.event = "devices-update"
    /\ last.listener = "observer"
    /\ last.before = <<"observer", "observer">>
    /\ listeners["devices-update"] = <<>>

\* No property fetch for serial is in flight.
Settled(serial) == \A f \in BagToSet(fetches) : f.serial # serial

\* C33: once no fetch for a device is in flight, the registry shows the
\* device in the state carried by the most recent transport add or change
\* event for it; a fetch started by an earlier event that completes later
\* does not overwrite the state a later event applied.
C33_LatestEventWins ==
    \A s \in Serials :
        (live[s] # "absent" /\ Settled(s) /\ FindIndex(devices, s) > 0)
        => EntryOf(devices, s).state = live[s]

\* A fetch for the serial that updateDevice was just called for completes
\* in this step; the fetch was in flight when updateDevice ran.
FetchCompletesAfterUpdate ==
    /\ last.op = "updateDevice"
    /\ last.present
    /\ last'.op \in {"fetchResolve", "fetchReject"}
    /\ last'.serial = last.serial

\* C34: what updateDevice wrote to a registered device while a fetch for it
\* was in flight is still there when the fetch has completed: the upsert
\* that ends the fetch does not write back the values the fields had when
\* the fetch started.
C34_UpdateSurvivesFetch ==
    [][FetchCompletesAfterUpdate
       => \A field \in DOMAIN last.updates :
            EntryOf(devices', last.serial)[field] = last.updates[field]]_vars

\* C38: updateDevice for a serial the registry does not hold inserts
\* nothing and leaves every entry as it was; for a serial it holds, that
\* entry gets the named fields and keeps its others, and the other entries
\* and the order of the registry are as before.
C38_UpdateDeviceFrame ==
    [][last'.op = "updateDevice"
       => LET s == last'.serial
              u == last'.updates
          IN /\ Len(devices') = Len(devices)
             /\ FindIndex(devices, s) = 0 => devices' = devices
             /\ \A i \in 1..Len(devices) :
                   /\ devices'[i].serial = devices[i].serial
                   /\ devices[i].serial # s => devices'[i] = devices[i]
                   /\ devices[i].serial = s
                      => /\ DOMAIN devices'[i] = DOMAIN devices[i]
                         /\ \A f \in DOMAIN devices[i] :
                               devices'[i][f] = IF f \in DOMAIN u THEN u[f]
                                                ELSE devices[i][f]]_vars

\* updateDevice changed the second of two registered devices.
C38_Witness ==
    /\ last.op = "updateDevice"
    /\ Len(devices) = 2
    /\ devices[2].serial = last.serial
    /\ devices[2].isLoading
    /\ ~devices[1].isLoading

\* The disconnectAll loops that wait for the disconnect of the device at
\* position idx of the serials start.
Attempting(loops, start, idx) ==
    { c \in Holders(loops) : c.start = start /\ c.idx = idx /\ c.serial = start[idx] }

\* C35: disconnectAll attempts the disconnect of the devices the registry
\* held when it was called one after the other, in the registry's order:
\* the first at the call, each next one when the one before it has settled,
\* also when that one failed; no disconnect it awaits makes it reject, and
\* no event is published.
C35_DisconnectAllAttemptsEach ==
    [][/\ (last'.op = "disconnectAll" /\ devices # <<>>)
          => /\ Attempting(calls', [i \in 1..Len(devices) |-> devices[i].serial], 1) # {}
             /\ BagCardinality(calls') = BagCardinality(calls) + 1
             /\ emitted' = <<>>
       /\ last'.op = "disconnectAllSettle"
          => /\ last'.rejected = <<>>
             /\ emitted' = <<>>
             /\ BagCardinality(calls') <= BagCardinality(calls)
             /\ last'.idx <= Len(last'.start) => last'.serial = last'.start[last'.idx]
             /\ last'.idx < Len(last'.start)
                => Attempting(calls', last'.start, last'.idx + 1) # {}]_vars

\* The disconnect of the first of two devices failed, and the loop waits
\* for the disconnect of the second.
C35_Witness ==
    /\ last.op = "disconnectAllSettle"
    /\ last.failed
    /\ last.idx = 1
    /\ Len(last.start) = 2
    /\ Attempting(calls, last.start, 2) # {}

\* The steps of connectDevice and disconnectDevice calls.
ConnectionOps == {"connectDevice", "connectSettle", "disconnectDevice", "disconnectSettle"}

\* The steps that react to a transport event (its handler and the
\* completion of the fetch it started) and the explicit updateDevice.
RegistryWriters == {"statePatch", "remove", "fetchResolve", "fetchReject", "updateDevice"}

\* C36: no step of a connectDevice or disconnectDevice call, whether the
\* transport call succeeds or fails, changes the registry or publishes
\* devices-update; the registry changes only in steps that handle a
\* transport add, change or remove event or an explicit updateDevice.
C36_ConnectionsLeaveRegistry ==
    [][/\ last'.op \in ConnectionOps
          => /\ devices' = devices
             /\ \A i \in 1..Len(emitted') : emitted'[i].event # "devices-update"
       /\ devices' # devices => last'.op \in RegistryWriters]_vars

\* A disconnectDevice call for a registered device succeeded, and the
\* registry still holds the device.
C36_Witness ==
    /\ last.op = "disconnectSettle"
    /\ last.rejected = <<>>
    /\ last.present
    /\ FindIndex(devices, last.serial) > 0

\* runAdbCommandOnFleet is called in this step.
FleetCalled ==
    /\ steps' = steps + 1
    /\ last'.op \in DispatchOps
    /\ last'.handler = "runAdbCommandOnFleet"

\* C37: a fleet dispatch called while the registry shows no device online
\* issues no command and starts no operation, marks no device loading,
\* leaves the registry as it was and publishes no event.
C37_NoOnlineNoEffect ==
    [][(FleetCalled /\ \A i \in 1..Len(devices) : devices[i].state # "device")
       => /\ last'.issued = {}
          /\ last'.marked = {}
          /\ dispatches' = dispatches
          /\ devices' = devices
          /\ emitted' = <<>>]_vars

\* A fleet dispatch was called with only offline devices registered and
\* left them as they were, not loading.
C37_Witness ==
    /\ last.op = "noTargets"
    /\ last.handler = "runAdbCommandOnFleet"
    /\ devices # <<>>
    /\ \A i \in 1..Len(devices) : ~devices[i].isLoading
    /\ appError = NoOnlineDevices

\* Detection resolves in this step for a call that cancelScan() was called
\* on, with no scanNetwork() call since: the flag cancelScan() cleared is
\* still cleared.
CancelledWhileDetecting ==
    /\ last'.op = "detectResolve"
    /\ last'.call.cancelled
    /\ ~isScanning

\* C39: a scan cancelled before its subnet detection resolved, with no
\* scanNetwork() call after the cancel, returns when detection resolves
\* having issued no connect and built no batch, and publishes scan-complete
\* exactly once.
C39_CancelBeforeDetection ==
    [][CancelledWhileDetecting
       => /\ last'.returned = <<last'.call>>
          /\ last'.call.probes = 0
          /\ last'.call.swept = <<>>
          /\ Len(scans') = Len(scans) - 1
          /\ CompleteCount(emitted') = 1
          /\ ~isScanning']_vars

\* The one scan there was returned at the end of detection, after
\* cancelScan(), without a connect.
C39_Witness ==
    /\ last.op = "detectResolve"
    /\ last.call.cancelled
    /\ last.call.probes = 0
    /\ scans = <<>>
    /\ ~isScanning
    /\ CompleteCount(emitted) = 1

\* The single-device layout_bounds dispatch r on a device it found with
\* the flag at shown ends successfully in this step, right after another
\* such dispatch on the same device, started from the same value of the
\* flag, ended successfully and left the flag negated: r was in flight
\* when that one ended.
SecondToggleEnds(r, shown) ==
    /\ r.handler = "runAdbCommandOnDevice"
    /\ r.cmd = "layout_bounds"
    /\ r.targets[1].layoutBoundsVisible = shown
    /\ last.op = "complete"
    /\ last.handler = "runAdbCommandOnDevice"
    /\ "cmd" \in DOMAIN last
    /\ last.cmd = "layout_bounds"
    /\ last.succeeded = {r.targets[1].serial}
    /\ last.snapshot = shown
    /\ FindIndex(devices, r.targets[1].serial) > 0
    /\ EntryOf(devices, r.targets[1].serial).layoutBoundsVisible = ~shown
    /\ last'.op = "complete"
    /\ dispatches' = dispatches (-) SetToBag({r})
    /\ last'.succeeded = {r.targets[1].serial}

\* C40: two layout-bounds toggles of the same device that both succeed
\* leave layoutBoundsVisible as it was before the first of them, also when
\* the second was dispatched before the first had finished.
C40_DoubleToggleRestores ==
    [][\A r \in BagToSet(dispatches), shown \in BOOLEAN :
          SecondToggleEnds(r, shown)
          => EntryOf(devices', r.targets[1].serial).layoutBoundsVisible = shown]_vars
====
